---- MODULE Spec2Model ----
(***************************************************************************)
(* Model of the notification registry of qdb-rust                          *)
(* (framework/notification.rs), the event emitter it fans out with         *)
(* (framework/events/emitter.rs) and the std::sync::mpsc channels whose    *)
(* receive endpoints are handed to the application.  The transport         *)
(* (ClientTrait) is the environment: every answer it can give is chosen    *)
(* nondeterministically.  The database worker that supervises the          *)
(* connection (framework/workers/database.rs) runs under the application's *)
(* loop (framework/application.rs) in the specification SupSpec.           *)
(***************************************************************************)
EXTENDS Integers, Sequences, FiniteSets, TLC

\* ---------------------------------------------------------------- bounds
MaxSlots == 2    \* receive endpoints created in one behaviour
MaxNotifs == 3    \* notifications the transport returns in one behaviour
MaxBatch == 3     \* notifications in one get_notifications() answer
MaxPending == 1   \* network status values waiting in the worker's receiver
MaxWorkerNotifs == 1   \* notifications the worker's polls return in one behaviour
MaxEvents == 3    \* length of the kept tail of the worker's effects
MaxEmits == 1     \* values an application emitter has sent to a receiver that keeps them

\* Small value sets the inputs are drawn from.
Configs == {"c1", "c2"}
Tokens == {"t1", "t2"}
NoConfig == "none"
NoToken == "none"

VARIABLES
    registered_config,       \* HashSet<NotificationConfig>
    config_to_token,         \* HashMap<NotificationConfig, NotificationToken>
    token_to_callback_list,  \* HashMap<NotificationToken, Emitter>; an Emitter is its senders map
    COUNTER,                 \* the process-wide AtomicUsize of Emitter::connect
    channels,                \* the mpsc channels created so far, by channel number: the receiver
                             \* is alive or dropped, queue is what was sent to it, in order
    polled,                  \* notifications the transport has returned so far
    last,                    \* the last call: its arguments, its result, the transport calls it
                             \* made, the endpoint it returned, the notifications it emitted
    handed,                  \* per config, the endpoints register returned since the config's
                             \* token was last unregistered or the registry cleared
    unsubscribed,            \* the tokens unregistered and not returned by the transport since
    cleared                  \* the registry was cleared and register has not succeeded since

regVars == <<registered_config, config_to_token, token_to_callback_list, COUNTER,
             channels, polled, last, handed, unsubscribed, cleared>>

VARIABLES
    is_db_connected,            \* Worker::is_db_connected: Connected or Disconnected
    is_nw_connected,            \* Worker::is_nw_connected
    network_connection_status,  \* Worker::receivers: whether a receiver is set, and the
                                \* values sent to it and not yet received
    client_connected,           \* what the transport's connected() answers
    phase,                      \* where the application's loop stands
    tick,                       \* the last do_work: what it called, in order, and its result
    effects,                    \* the clear calls and connection_status emits of the worker
                                \* so far, in order (the last MaxEvents of them)
    dispatched,                 \* a process_notifications of the worker has returned Ok
    stale                       \* the configs registered while Connected, registry not
                                \* cleared since

supVars == <<is_db_connected, is_nw_connected, network_connection_status,
             client_connected, phase, tick, effects, dispatched, stale>>

VARIABLES
    workers,   \* Application::workers, in the order of the add_worker calls
    quit,      \* the BoolFlag of the Context
    pc,        \* where Application::execute stands: the function it is in, the worker
               \* it is about to call and, in process_events, the inner worker
    iter,      \* iterations of the loop of Application::do_work begun so far
    history,   \* the worker calls made so far, in order, with what each returned
    requested, \* the quit flag was found set after a worker call of the iteration
               \* in progress
    preset     \* the quit flag was set when execute was called

appVars == <<workers, quit, pc, iter, history, requested, preset>>

VARIABLES
    value,     \* a RawValue: its variant and what the variant holds
    vlast      \* the last call on the value and what it returned

valVars == <<value, vlast>>

VARIABLES
    emitters,  \* the emitters the application holds, each its senders map
    cells,     \* the Rc<RefCell<RawField>> cells allocated so far: what each holds
    elast      \* the last call on an application emitter or on what it delivered

emVars == <<emitters, cells, elast>>

VARIABLES
    auth_failure,        \* rest::Client::auth_failure
    endpoint_reachable,  \* rest::Client::endpoint_reachable
    request_template,    \* rest::Client::request_template: the client id requests carry
    reach,               \* the last connect that succeeded, request or disconnect was a
                         \* success of connect or of a request
    auth_seen,           \* a request has failed to authenticate since the last connect
                         \* that succeeded or disconnect
    auth_pending,        \* a request has failed to authenticate since the last connect
                         \* that succeeded
    rlast                \* the last call on the REST client and how it went

restVars == <<auth_failure, endpoint_reachable, request_template, reach, auth_seen,
             auth_pending, rlast>>

vars == <<regVars, supVars, appVars, valVars, emVars, restVars>>

\* ------------------------------------------------------ results and calls
Ok == "ok"
TransportError == "TransportError"
NotificationError == "NotificationError"

TransportCall(name, arg, ok) == [call |-> name, arg |-> arg, ok |-> ok]

Call(op, config, token, result, calls, batch, rx) ==
    [op |-> op, config |-> config, token |-> token, result |-> result,
     calls |-> calls, batch |-> batch, rx |-> rx, done |-> 0]

\* ------------------------------------------------------------- functions
EmptyMap == [x \in {} |-> x]

\* HashMap::insert: the value under an existing key is replaced.
Insert(m, k, v) == [x \in (DOMAIN m) \cup {k} |-> IF x = k THEN v ELSE m[x]]

\* HashMap::remove / retain by key.
Restrict(m, keys) == [x \in (DOMAIN m) \cap keys |-> m[x]]

Range(m) == {m[x] : x \in DOMAIN m}

\* ------------------------------------------------------------ the emitter
\* Emitter::new: no senders.
EmitterNew == EmptyMap

\* Emitter::connect: the sender is stored under the next COUNTER value.
connect(senders, id, sender) == Insert(senders, id, sender)

\* A faulty disconnect: every sender goes with the one removed.
disconnectClears(senders, id) == IF id \in DOMAIN senders THEN EmptyMap ELSE senders

\* Emitter::disconnect: HashMap::remove of the slot.
disconnect(senders, id) == Restrict(senders, (DOMAIN senders) \ {id})

\* mpsc::channel(): a live receiver, nothing sent yet.
NewChannel == [alive |-> TRUE, queue |-> <<>>]

\* Sender::send succeeds exactly while the receiver has not been dropped.
SendOk(chans, ch) == chans[ch].alive

RECURSIVE Repeat(_, _)
Repeat(v, n) == IF n = 0 THEN <<>> ELSE <<v>> \o Repeat(v, n - 1)

\* A faulty emit: nothing is pruned, the senders of dropped receivers stay.
EmitSendersKeepAll(senders, chans) == senders

\* Emitter::emit, the senders that stay: retain keeps those whose send is Ok.
EmitSenders(senders, chans) ==
    Restrict(senders, {id \in DOMAIN senders : SendOk(chans, senders[id])})

\* A faulty emit: the sends stop for good at a failed one, so with a dropped
\* receiver among the listeners nobody is sent the value.
EmitChannelsStopOnDead(senders, chans, v) ==
    IF \E id \in DOMAIN senders : ~SendOk(chans, senders[id])
    THEN chans
    ELSE [ch \in DOMAIN chans |->
             IF ch \in Range(senders)
             THEN [chans[ch] EXCEPT !.queue = Append(@, v)]
             ELSE chans[ch]]

\* A faulty emit: the value is put at the head of each listener's queue.
EmitChannelsPrepend(senders, chans, v) ==
    [ch \in DOMAIN chans |->
        IF ch \in Range(senders) /\ SendOk(chans, ch)
        THEN [chans[ch] EXCEPT !.queue = <<v>> \o @]
        ELSE chans[ch]]

\* A faulty emit: the value is sent to every live channel, whichever emitter
\* holds its sender.
EmitChannelsBroadcast(senders, chans, v) ==
    [ch \in DOMAIN chans |->
        IF SendOk(chans, ch)
        THEN [chans[ch] EXCEPT !.queue = Append(@, v)]
        ELSE chans[ch]]

\* Emitter::emit, the channels afterwards: one clone of the value per sender
\* whose receiver is alive.
EmitChannels(senders, chans, v) ==
    [ch \in DOMAIN chans |->
        IF SendOk(chans, ch)
        THEN [chans[ch] EXCEPT !.queue =
                 @ \o Repeat(v, Cardinality({id \in DOMAIN senders : senders[id] = ch}))]
        ELSE chans[ch]]

\* ------------------------------------------------------------------ Init
\* Worker::new: Disconnected, network down, no network status receiver.
None == [some |-> FALSE, queue |-> <<>>]

\* A faulty Worker::new: the worker starts Connected.
WorkerNewConnected ==
    [is_db_connected |-> TRUE, is_nw_connected |-> FALSE,
     network_connection_status |-> None]

WorkerNew ==
    [is_db_connected |-> FALSE, is_nw_connected |-> FALSE,
     network_connection_status |-> None]

\* What one do_work did: the calls it made in order, and what it returned.
Tick(calls, result) == [calls |-> calls, result |-> result]

NoTick == Tick(<<>>, "none")

\* A place in Application::execute.
At(at, i, j) == [at |-> at, i |-> i, j |-> j]

\* RawValue: a variant and its payload; Unspecified holds nothing.
NoPayload == "none"

RawValue(variant, payload) == [variant |-> variant, payload |-> payload]

Unspecified == RawValue("Unspecified", NoPayload)

\* A call on the value: the method family, the variant it is for, its
\* argument and its result.
ValueCall(op, variant, arg, result) ==
    [op |-> op, variant |-> variant, arg |-> arg, result |-> result]

\* A call on the REST client: connect, disconnect, or the method that sent a
\* request, and how it went.
RestCall(op, method, outcome) == [op |-> op, method |-> method, outcome |-> outcome]

\* The emitters of the application, other than those of the registry.
EmitterIds == {"e1", "e2"}

NoEmitter == "none"

\* A call on an emitter: the emitter, the slot and the channel it is about.
EmitterCall(op, emitter, id, ch) == [op |-> op, emitter |-> emitter, id |-> id, ch |-> ch]

Init ==
    /\ registered_config = {}
    /\ config_to_token = EmptyMap
    /\ token_to_callback_list = EmptyMap
    /\ COUNTER = 0
    /\ channels = <<>>
    /\ polled = 0
    /\ last = Call("new", NoConfig, NoToken, Ok, <<>>, <<>>, 0)
    /\ handed = [c \in Configs |-> {}]
    /\ unsubscribed = {}
    /\ cleared = FALSE
    /\ is_db_connected = WorkerNew.is_db_connected
    /\ is_nw_connected = WorkerNew.is_nw_connected
    /\ network_connection_status = WorkerNew.network_connection_status
    /\ client_connected = FALSE
    /\ phase = "do_work"
    /\ tick = NoTick
    /\ effects = <<>>
    /\ dispatched = FALSE
    /\ stale = {}
    /\ workers = <<>>
    /\ quit = FALSE
    /\ pc = At("new", 0, 0)
    /\ iter = 0
    /\ history = <<>>
    /\ requested = FALSE
    /\ preset = FALSE
    /\ value = Unspecified
    /\ vlast = ValueCall("new", "Unspecified", NoPayload, Ok)
    /\ emitters = [e \in EmitterIds |-> EmitterNew]
    /\ cells = <<>>
    /\ elast = EmitterCall("new", NoEmitter, 0, 0)
    /\ auth_failure = FALSE
    /\ endpoint_reachable = FALSE
    /\ request_template = "empty"
    /\ reach = FALSE
    /\ auth_seen = FALSE
    /\ auth_pending = FALSE
    /\ rlast = RestCall("new", "none", "ok")

\* ------------------------------------------------- the application's side
\* Emitter::new_receiver on the emitter of `token` in the map `tcl`: a new
\* channel, its sender connected under the next COUNTER value, its receiver
\* returned to the caller.
NextChannel == Len(channels) + 1

NewReceiver(tcl, token) ==
    /\ token_to_callback_list' =
           [tcl EXCEPT ![token] = connect(@, COUNTER, NextChannel)]
    /\ COUNTER' = COUNTER + 1
    /\ channels' = Append(channels, NewChannel)

\* The application drops a receive endpoint: what the channel holds is freed
\* and every later send to it fails.
DropReceiver(ch) ==
    /\ ch \in DOMAIN channels
    /\ channels[ch].alive
    /\ channels' = [channels EXCEPT ![ch] = [alive |-> FALSE, queue |-> <<>>]]
    /\ last' = Call("drop", NoConfig, NoToken, Ok, <<>>, <<>>, ch)
    /\ UNCHANGED <<registered_config, config_to_token, token_to_callback_list,
                   COUNTER, polled, handed, unsubscribed, cleared>>

\* ----------------------------------------------------------- the registry
\* A faulty clear: the emitters are forgotten about and stay.
clearKeepsEmitters ==
    /\ registered_config' = {}
    /\ config_to_token' = EmptyMap
    /\ last' = Call("clear", NoConfig, NoToken, Ok, <<>>, <<>>, 0)
    /\ handed' = [c \in Configs |-> {}]
    /\ cleared' = TRUE
    /\ UNCHANGED <<token_to_callback_list, COUNTER, channels, polled, unsubscribed>>

\* A faulty clear: the set of registered configs is left as it was.
clearKeepsConfigs ==
    /\ config_to_token' = EmptyMap
    /\ token_to_callback_list' = EmptyMap
    /\ last' = Call("clear", NoConfig, NoToken, Ok, <<>>, <<>>, 0)
    /\ handed' = [c \in Configs |-> {}]
    /\ cleared' = TRUE
    /\ UNCHANGED <<registered_config, COUNTER, channels, polled, unsubscribed>>

\* _NotificationManager::clear
clear ==
    /\ registered_config' = {}
    /\ config_to_token' = EmptyMap
    /\ token_to_callback_list' = EmptyMap
    /\ last' = Call("clear", NoConfig, NoToken, Ok, <<>>, <<>>, 0)
    /\ handed' = [c \in Configs |-> {}]
    /\ cleared' = TRUE
    /\ UNCHANGED <<COUNTER, channels, polled, unsubscribed>>

\* _NotificationManager::register, the config is in registered_config: no
\* transport call, a new receiver on the emitter of the config's token.
RegisterKnown(config) ==
    /\ config \in registered_config
    /\ IF config \notin DOMAIN config_to_token
       THEN /\ last' = Call("register", config, NoToken, NotificationError, <<>>, <<>>, 0)
            /\ UNCHANGED <<registered_config, config_to_token, token_to_callback_list,
                           COUNTER, channels, polled, handed, unsubscribed, cleared>>
       ELSE IF config_to_token[config] \notin DOMAIN token_to_callback_list
       THEN /\ last' = Call("register", config, NoToken, NotificationError, <<>>, <<>>, 0)
            /\ UNCHANGED <<registered_config, config_to_token, token_to_callback_list,
                           COUNTER, channels, polled, handed, unsubscribed, cleared>>
       ELSE /\ COUNTER < MaxSlots
            /\ NewReceiver(token_to_callback_list, config_to_token[config])
            /\ last' = Call("register", config, config_to_token[config], Ok, <<>>, <<>>,
                            NextChannel)
            /\ handed' = [handed EXCEPT ![config] = @ \cup {NextChannel}]
            /\ cleared' = FALSE
            /\ UNCHANGED <<registered_config, config_to_token, polled, unsubscribed>>

\* A faulty refused register: the config is inserted before the transport
\* is asked.
RegisterRefusedAfterInsert(config) ==
    /\ config \notin registered_config
    /\ registered_config' = registered_config \cup {config}
    /\ last' = Call("register", config, NoToken, TransportError,
                    <<TransportCall("register_notification", config, FALSE)>>, <<>>, 0)
    /\ UNCHANGED <<config_to_token, token_to_callback_list,
                   COUNTER, channels, polled, handed, unsubscribed, cleared>>

\* _NotificationManager::register, the config is not registered, the
\* transport refuses: the error is returned by `?` before any insert.
RegisterRefused(config) ==
    /\ config \notin registered_config
    /\ last' = Call("register", config, NoToken, TransportError,
                    <<TransportCall("register_notification", config, FALSE)>>, <<>>, 0)
    /\ UNCHANGED <<registered_config, config_to_token, token_to_callback_list,
                   COUNTER, channels, polled, handed, unsubscribed, cleared>>

\* _NotificationManager::register, the config is not registered, the
\* transport answers `token`: the three inserts, then a new receiver on the
\* emitter just inserted.
RegisterFresh(config, token) ==
    /\ config \notin registered_config
    /\ COUNTER < MaxSlots
    /\ registered_config' = registered_config \cup {config}
    /\ config_to_token' = Insert(config_to_token, config, token)
    /\ NewReceiver(Insert(token_to_callback_list, token, EmitterNew), token)
    /\ last' = Call("register", config, token, Ok,
                    <<TransportCall("register_notification", config, TRUE)>>, <<>>,
                    NextChannel)
    /\ handed' = [handed EXCEPT ![config] = {NextChannel}]
    /\ unsubscribed' = unsubscribed \ {token}
    /\ cleared' = FALSE
    /\ UNCHANGED polled

register(config) ==
    \/ RegisterKnown(config)
    \/ RegisterRefused(config)
    \/ \E token \in Tokens : RegisterFresh(config, token)

\* A faulty unregister of an unknown token: the containment test is missing,
\* the transport is asked and accepts.
UnregisterUnknownCalls(token) ==
    /\ token \notin DOMAIN token_to_callback_list
    /\ last' = Call("unregister", NoConfig, token, Ok,
                    <<TransportCall("unregister_notification", token, TRUE)>>, <<>>, 0)
    /\ UNCHANGED <<registered_config, config_to_token, token_to_callback_list,
                   COUNTER, channels, polled, handed, unsubscribed, cleared>>

\* _NotificationManager::unregister, the token has no emitter.
UnregisterUnknown(token) ==
    /\ token \notin DOMAIN token_to_callback_list
    /\ last' = Call("unregister", NoConfig, token, NotificationError, <<>>, <<>>, 0)
    /\ UNCHANGED <<registered_config, config_to_token, token_to_callback_list,
                   COUNTER, channels, polled, handed, unsubscribed, cleared>>

\* A faulty refused unregister: the emitter is removed before the transport
\* is asked.
UnregisterRefusedAfterRemove(token) ==
    /\ token \in DOMAIN token_to_callback_list
    /\ token_to_callback_list' =
           Restrict(token_to_callback_list, (DOMAIN token_to_callback_list) \ {token})
    /\ last' = Call("unregister", NoConfig, token, TransportError,
                    <<TransportCall("unregister_notification", token, FALSE)>>, <<>>, 0)
    /\ UNCHANGED <<registered_config, config_to_token,
                   COUNTER, channels, polled, handed, unsubscribed, cleared>>

\* _NotificationManager::unregister, the transport refuses.
UnregisterRefused(token) ==
    /\ token \in DOMAIN token_to_callback_list
    /\ last' = Call("unregister", NoConfig, token, TransportError,
                    <<TransportCall("unregister_notification", token, FALSE)>>, <<>>, 0)
    /\ UNCHANGED <<registered_config, config_to_token, token_to_callback_list,
                   COUNTER, channels, polled, handed, unsubscribed, cleared>>

\* A faulty retain: nothing is removed.
RetainEveryToken(c2t, token) == c2t

\* config_to_token.retain(|_, v| v != token)
RetainOtherTokens(c2t, token) ==
    Restrict(c2t, {c \in DOMAIN c2t : c2t[c] # token})

\* A faulty accepted unregister: the emitter of the token is left in
\* token_to_callback_list.
UnregisterDoneKeepsEmitter(token) ==
    /\ token \in DOMAIN token_to_callback_list
    /\ config_to_token' = RetainOtherTokens(config_to_token, token)
    /\ registered_config' = {c \in registered_config : c \in DOMAIN config_to_token'}
    /\ last' = Call("unregister", NoConfig, token, Ok,
                    <<TransportCall("unregister_notification", token, TRUE)>>, <<>>, 0)
    /\ handed' = [c \in Configs |->
                     IF c \in DOMAIN config_to_token /\ config_to_token[c] = token
                     THEN {} ELSE handed[c]]
    /\ unsubscribed' = unsubscribed \cup {token}
    /\ UNCHANGED <<token_to_callback_list, COUNTER, channels, polled, cleared>>

\* _NotificationManager::unregister, the transport accepts: the emitter is
\* removed, then every config of the token, then registered_config is cut
\* down to the configs config_to_token still has.
UnregisterDone(token) ==
    /\ token \in DOMAIN token_to_callback_list
    /\ token_to_callback_list' =
           Restrict(token_to_callback_list, (DOMAIN token_to_callback_list) \ {token})
    /\ config_to_token' = RetainOtherTokens(config_to_token, token)
    /\ registered_config' = {c \in registered_config : c \in DOMAIN config_to_token'}
    /\ last' = Call("unregister", NoConfig, token, Ok,
                    <<TransportCall("unregister_notification", token, TRUE)>>, <<>>, 0)
    /\ handed' = [c \in Configs |->
                     IF c \in DOMAIN config_to_token /\ config_to_token[c] = token
                     THEN {} ELSE handed[c]]
    /\ unsubscribed' = unsubscribed \cup {token}
    /\ UNCHANGED <<COUNTER, channels, polled, cleared>>

unregister(token) ==
    \/ UnregisterUnknown(token)
    \/ UnregisterRefused(token)
    \/ UnregisterDone(token)

\* The answers get_notifications() can give: up to MaxBatch notifications,
\* each for any token; a notification carries its token and, standing for
\* its fields, the number the transport produced it under.
RECURSIVE SeqsUpTo(_, _)
SeqsUpTo(S, n) ==
    IF n = 0 THEN {<<>>}
    ELSE LET shorter == SeqsUpTo(S, n - 1)
         IN shorter \cup {Append(q, x) : q \in shorter, x \in S}

TokenBatches == SeqsUpTo(Tokens, MaxBatch)

Batch(toks) == [i \in 1..Len(toks) |-> [token |-> toks[i], seq |-> polled + i]]

\* A faulty loop: the error of an unknown token is kept for the end and the
\* rest of the batch is still emitted.
RECURSIVE ProcessLoopContinue(_, _, _, _)
ProcessLoopContinue(tcl, chans, batch, i) ==
    IF i > Len(batch)
    THEN [tcl |-> tcl, chans |-> chans, result |-> Ok, done |-> i - 1]
    ELSE IF batch[i].token \notin DOMAIN tcl
    THEN [ProcessLoopContinue(tcl, chans, batch, i + 1)
             EXCEPT !.result = NotificationError]
    ELSE ProcessLoopContinue(
             [tcl EXCEPT ![batch[i].token] = EmitSenders(@, chans)],
             EmitChannels(tcl[batch[i].token], chans, batch[i]),
             batch, i + 1)

\* A faulty loop: a notification for an unknown token is skipped silently.
RECURSIVE ProcessLoopSkip(_, _, _, _)
ProcessLoopSkip(tcl, chans, batch, i) ==
    IF i > Len(batch)
    THEN [tcl |-> tcl, chans |-> chans, result |-> Ok, done |-> i - 1]
    ELSE IF batch[i].token \notin DOMAIN tcl
    THEN ProcessLoopSkip(tcl, chans, batch, i + 1)
    ELSE ProcessLoopSkip(
             [tcl EXCEPT ![batch[i].token] = EmitSenders(@, chans)],
             EmitChannels(tcl[batch[i].token], chans, batch[i]),
             batch, i + 1)

\* The for loop of process_notifications from notification i on: an unknown
\* token returns the error at once (`?`), a known one is emitted on its
\* emitter.  `done` is the number of notifications emitted.
RECURSIVE ProcessLoop(_, _, _, _)
ProcessLoop(tcl, chans, batch, i) ==
    IF i > Len(batch)
    THEN [tcl |-> tcl, chans |-> chans, result |-> Ok, done |-> i - 1]
    ELSE IF batch[i].token \notin DOMAIN tcl
    THEN [tcl |-> tcl, chans |-> chans, result |-> NotificationError, done |-> i - 1]
    ELSE ProcessLoop(
             [tcl EXCEPT ![batch[i].token] = EmitSenders(@, chans)],
             EmitChannels(tcl[batch[i].token], chans, batch[i]),
             batch, i + 1)

\* _NotificationManager::process_notifications, get_notifications() fails.
ProcessRefused ==
    /\ last' = Call("process_notifications", NoConfig, NoToken, TransportError,
                    <<TransportCall("get_notifications", "", FALSE)>>, <<>>, 0)
    /\ UNCHANGED <<registered_config, config_to_token, token_to_callback_list,
                   COUNTER, channels, polled, handed, unsubscribed, cleared>>

\* _NotificationManager::process_notifications, get_notifications() answers
\* with the notifications of the tokens `toks`.
ProcessBatch(toks) ==
    /\ polled + Len(toks) <= MaxNotifs
    /\ LET r == ProcessLoop(token_to_callback_list, channels, Batch(toks), 1)
       IN /\ token_to_callback_list' = r.tcl
          /\ channels' = r.chans
          /\ last' = [Call("process_notifications", NoConfig, NoToken, r.result,
                           <<TransportCall("get_notifications", "", TRUE)>>,
                           Batch(toks), 0) EXCEPT !.done = r.done]
    /\ polled' = polled + Len(toks)
    /\ UNCHANGED <<registered_config, config_to_token, COUNTER, handed, unsubscribed,
                   cleared>>

process_notifications ==
    \/ ProcessRefused
    \/ \E toks \in TokenBatches : ProcessBatch(toks)

\* ------------------------------------------------------------------ Next
\* The registry used on its own: no worker runs.
NoWorker == UNCHANGED <<supVars, appVars, valVars, emVars, restVars>>

Next ==
    \/ clear /\ NoWorker
    \/ \E config \in Configs : RegisterKnown(config) /\ NoWorker
    \/ \E config \in Configs : RegisterRefused(config) /\ NoWorker
    \/ \E config \in Configs, token \in Tokens : RegisterFresh(config, token) /\ NoWorker
    \/ \E token \in Tokens : UnregisterUnknown(token) /\ NoWorker
    \/ \E token \in Tokens : UnregisterRefused(token) /\ NoWorker
    \/ \E token \in Tokens : UnregisterDone(token) /\ NoWorker
    \/ ProcessRefused /\ NoWorker
    \/ \E toks \in TokenBatches : ProcessBatch(toks) /\ NoWorker
    \/ \E ch \in DOMAIN channels : DropReceiver(ch) /\ NoWorker

Spec == Init /\ [][Next]_vars

\* ------------------------------------------------------------- invariants
TypeOK ==
    /\ registered_config \subseteq Configs
    /\ DOMAIN config_to_token \subseteq Configs
    /\ Range(config_to_token) \subseteq Tokens
    /\ DOMAIN token_to_callback_list \subseteq Tokens
    /\ COUNTER \in 0..MaxSlots
    /\ Len(channels) = COUNTER
    /\ polled \in 0..MaxNotifs

\* ============================================================ supervisor
\* The database worker (framework/workers/database.rs) under the loop of
\* Application::do_work, which calls the worker's do_work and then its
\* process_events, again and again.

\* connection_status.emit(b), as an entry of a tick's calls.
Emitted(b) == IF b THEN "emit(true)" ELSE "emit(false)"

Effects == {"clear", Emitted(FALSE), Emitted(TRUE)}

IsEffect(c) == c \in Effects

\* The effects so far with those of `calls` added, the last MaxEvents kept.
Keep(log, calls) ==
    LET all == log \o SelectSeq(calls, IsEffect)
    IN IF Len(all) <= MaxEvents THEN all
       ELSE SubSeq(all, Len(all) - MaxEvents + 1, Len(all))

\* The application sets receivers.network_connection_status before it hands
\* the worker to the Application.
SetNetworkReceiver ==
    /\ ~network_connection_status.some
    /\ tick = NoTick
    /\ phase = "do_work"
    /\ network_connection_status' = [some |-> TRUE, queue |-> <<>>]
    /\ UNCHANGED <<regVars, is_db_connected, is_nw_connected, client_connected,
                   phase, tick, effects, dispatched, stale>>

\* The sender of the network status channel sends `b`.
NetworkStatus(b) ==
    /\ network_connection_status.some
    /\ Len(network_connection_status.queue) < MaxPending
    /\ network_connection_status' =
           [network_connection_status EXCEPT !.queue = Append(@, b)]
    /\ UNCHANGED <<regVars, is_db_connected, is_nw_connected, client_connected,
                   phase, tick, effects, dispatched, stale>>

\* The backend goes away: connected() answers false from now on.
TransportLost ==
    /\ client_connected
    /\ client_connected' = FALSE
    /\ UNCHANGED <<regVars, is_db_connected, is_nw_connected,
                   network_connection_status, phase, tick, effects, dispatched,
                   stale>>

\* The application subscribes while the worker runs.
AppRegister(config, token) ==
    /\ RegisterFresh(config, token)
    /\ stale' = IF is_db_connected THEN stale \cup {config} ELSE stale
    /\ UNCHANGED <<is_db_connected, is_nw_connected, network_connection_status,
                   client_connected, phase, tick, effects, dispatched>>

\* A faulty branch: false is emitted on every tick the network is down.
DoWorkNetworkDownRepeats ==
    /\ phase = "do_work"
    /\ ~is_nw_connected
    /\ tick' = Tick(<<Emitted(FALSE)>>, Ok)
    /\ effects' = Keep(effects, <<Emitted(FALSE)>>)
    /\ is_db_connected' = FALSE
    /\ phase' = "process_events"
    /\ UNCHANGED <<regVars, is_nw_connected, network_connection_status,
                   client_connected, dispatched, stale>>

\* A faulty branch: the network going down also clears the registry.
DoWorkNetworkDownClears ==
    /\ phase = "do_work"
    /\ ~is_nw_connected
    /\ IF is_db_connected
       THEN /\ clear
            /\ tick' = Tick(<<"clear", Emitted(FALSE)>>, Ok)
            /\ effects' = Keep(effects, <<"clear", Emitted(FALSE)>>)
            /\ stale' = {}
       ELSE /\ tick' = Tick(<<>>, Ok)
            /\ UNCHANGED <<regVars, effects, stale>>
    /\ is_db_connected' = FALSE
    /\ phase' = "process_events"
    /\ UNCHANGED <<is_nw_connected, network_connection_status, client_connected,
                   dispatched>>

\* Worker::do_work, the network is down: a Connected worker becomes
\* Disconnected and emits false; nothing else is done.
DoWorkNetworkDown ==
    /\ phase = "do_work"
    /\ ~is_nw_connected
    /\ LET calls == IF is_db_connected THEN <<Emitted(FALSE)>> ELSE <<>>
       IN /\ tick' = Tick(calls, Ok)
          /\ effects' = Keep(effects, calls)
    /\ is_db_connected' = FALSE
    /\ phase' = "process_events"
    /\ UNCHANGED <<regVars, is_nw_connected, network_connection_status,
                   client_connected, dispatched, stale>>

\* What connect() and the connected() after it can answer.
ConnectAnswers == {"refused", "connected", "not_connected"}

\* A faulty reconnection: Connected and the true event whatever connect() says.
ReconnectOptimistic(answer) ==
    [calls |-> <<"disconnect", Emitted(TRUE), "connect">>,
     is_db_connected |-> TRUE,
     result |-> IF answer = "refused" THEN TransportError ELSE Ok]

\* A faulty reconnection: a successful connect() is not taken note of.
ReconnectForgets(answer) ==
    [calls |-> <<"disconnect", "connect">>
               \o (IF answer = "refused" THEN <<>> ELSE <<"connected">>),
     is_db_connected |-> FALSE,
     result |-> IF answer = "refused" THEN TransportError ELSE Ok]

\* Worker::do_work, from disconnect() on: connect()? returns the error; after
\* an Ok, connected() decides whether the worker becomes Connected and emits
\* true.
Reconnect(answer) ==
    [calls |-> <<"disconnect", "connect">>
               \o (IF answer = "refused" THEN <<>> ELSE <<"connected">>)
               \o (IF answer = "connected" THEN <<Emitted(TRUE)>> ELSE <<>>),
     is_db_connected |-> (answer = "connected"),
     result |-> IF answer = "refused" THEN TransportError ELSE Ok]

\* A faulty branch: the subscriptions are kept when the backend was lost.
DoWorkReconnectNoClear(answer) ==
    /\ phase = "do_work"
    /\ is_nw_connected
    /\ ~client_connected
    /\ LET lost == IF is_db_connected THEN <<Emitted(FALSE)>> ELSE <<>>
           r == Reconnect(answer)
           calls == <<"connected">> \o lost \o r.calls
       IN /\ tick' = Tick(calls, r.result)
          /\ effects' = Keep(effects, calls)
          /\ is_db_connected' = r.is_db_connected
    /\ client_connected' = (answer = "connected")
    /\ phase' = "process_events"
    /\ UNCHANGED <<regVars, stale, is_nw_connected, network_connection_status,
                   dispatched>>

\* Worker::do_work, the network is up and the transport is not connected: a
\* Connected worker clears the registry, becomes Disconnected and emits
\* false; then disconnect() and connect().
DoWorkReconnect(answer) ==
    /\ phase = "do_work"
    /\ is_nw_connected
    /\ ~client_connected
    /\ IF is_db_connected
       THEN clear /\ stale' = {}
       ELSE UNCHANGED <<regVars, stale>>
    /\ LET lost == IF is_db_connected THEN <<"clear", Emitted(FALSE)>> ELSE <<>>
           r == Reconnect(answer)
           calls == <<"connected">> \o lost \o r.calls
       IN /\ tick' = Tick(calls, r.result)
          /\ effects' = Keep(effects, calls)
          /\ is_db_connected' = r.is_db_connected
    /\ client_connected' = (answer = "connected")
    /\ phase' = "process_events"
    /\ UNCHANGED <<is_nw_connected, network_connection_status, dispatched>>

\* Worker::do_work, the network is up and the transport is connected:
\* process_notifications()?.  `after` is what connected() answers afterwards:
\* a transport may report the connection lost once a poll has failed.
DoWorkDispatchDropsOnError(after) ==
    /\ phase = "do_work"
    /\ is_nw_connected
    /\ client_connected
    /\ \/ ProcessRefused
       \/ \E toks \in TokenBatches :
              /\ polled + Len(toks) <= MaxWorkerNotifs
              /\ ProcessBatch(toks)
    /\ after \/ last'.result = TransportError
    /\ client_connected' = after
    /\ tick' = Tick(<<"connected", "process_notifications">>, last'.result)
    /\ dispatched' = (dispatched \/ last'.result = Ok)
    /\ is_db_connected' = (is_db_connected /\ last'.result = Ok)
    /\ phase' = "process_events"
    /\ UNCHANGED <<is_nw_connected, network_connection_status, effects, stale>>

DoWorkDispatch(after) ==
    /\ phase = "do_work"
    /\ is_nw_connected
    /\ client_connected
    /\ \/ ProcessRefused
       \/ \E toks \in TokenBatches :
              /\ polled + Len(toks) <= MaxWorkerNotifs
              /\ ProcessBatch(toks)
    /\ after \/ last'.result = TransportError
    /\ client_connected' = after
    /\ tick' = Tick(<<"connected", "process_notifications">>, last'.result)
    /\ dispatched' = (dispatched \/ last'.result = Ok)
    /\ phase' = "process_events"
    /\ UNCHANGED <<is_db_connected, is_nw_connected, network_connection_status,
                   effects, stale>>

do_work ==
    \/ DoWorkNetworkDown
    \/ \E answer \in ConnectAnswers : DoWorkReconnect(answer)
    \/ \E after \in BOOLEAN : DoWorkDispatch(after)

\* Worker::process_events: every waiting network status is received, the
\* last one stays in is_nw_connected.
\* A faulty process_events: a false status never takes the flag down again.
process_eventsKeepsTrue ==
    /\ phase = "process_events"
    /\ LET queue == network_connection_status.queue
       IN IF queue # <<>>
          THEN /\ is_nw_connected' = (is_nw_connected \/ queue[Len(queue)])
               /\ network_connection_status' =
                      [network_connection_status EXCEPT !.queue = <<>>]
          ELSE UNCHANGED <<is_nw_connected, network_connection_status>>
    /\ phase' = "do_work"
    /\ UNCHANGED <<regVars, is_db_connected, client_connected, tick, effects,
                   dispatched, stale>>

process_events ==
    /\ phase = "process_events"
    /\ LET queue == network_connection_status.queue
       IN IF queue # <<>>
          THEN /\ is_nw_connected' = queue[Len(queue)]
               /\ network_connection_status' =
                      [network_connection_status EXCEPT !.queue = <<>>]
          ELSE UNCHANGED <<is_nw_connected, network_connection_status>>
    /\ phase' = "do_work"
    /\ UNCHANGED <<regVars, is_db_connected, client_connected, tick, effects,
                   dispatched, stale>>

\* The worker under the loop, apart from the rest of the application.
OnlyWorker == UNCHANGED <<appVars, valVars, emVars, restVars>>

SupNext ==
    \/ SetNetworkReceiver /\ OnlyWorker
    \/ \E b \in BOOLEAN : NetworkStatus(b) /\ OnlyWorker
    \/ TransportLost /\ OnlyWorker
    \/ \E config \in Configs, token \in Tokens : AppRegister(config, token) /\ OnlyWorker
    \/ DoWorkNetworkDown /\ OnlyWorker
    \/ \E answer \in ConnectAnswers : DoWorkReconnect(answer) /\ OnlyWorker
    \/ \E after \in BOOLEAN : DoWorkDispatch(after) /\ OnlyWorker
    \/ process_events /\ OnlyWorker

SupSpec == Init /\ [][SupNext]_vars

\* The worker and its environment without the application's subscriptions.
LiveNext ==
    \/ SetNetworkReceiver /\ OnlyWorker
    \/ \E b \in BOOLEAN : NetworkStatus(b) /\ OnlyWorker
    \/ TransportLost /\ OnlyWorker
    \/ DoWorkNetworkDown /\ OnlyWorker
    \/ \E answer \in ConnectAnswers : DoWorkReconnect(answer) /\ OnlyWorker
    \/ \E after \in BOOLEAN : DoWorkDispatch(after) /\ OnlyWorker
    \/ process_events /\ OnlyWorker

\* The loop keeps running, and a connect() that is tried again and again
\* succeeds in the end, with connected() true after it.
LiveSpec ==
    /\ Init
    /\ [][LiveNext]_vars
    /\ WF_vars(do_work /\ OnlyWorker)
    /\ WF_vars(process_events /\ OnlyWorker)
    /\ SF_vars(DoWorkReconnect("connected") /\ OnlyWorker)

\* The network is up for good and the transport stays connected once a
\* connect() has succeeded.
FlipNext ==
    \/ SetNetworkReceiver /\ OnlyWorker
    \/ NetworkStatus(TRUE) /\ OnlyWorker
    \/ \E config \in Configs, token \in Tokens : AppRegister(config, token) /\ OnlyWorker
    \/ DoWorkNetworkDown /\ OnlyWorker
    \/ \E answer \in {"refused", "connected"} : DoWorkReconnect(answer) /\ OnlyWorker
    \/ DoWorkDispatch(TRUE) /\ OnlyWorker
    \/ process_events /\ OnlyWorker

FlipSpec == Init /\ [][FlipNext]_vars

\* ------------------------------------------------------------ observation
\* The channels whose senders the emitter of `token` holds.
Attached(tcl, token) == Range(tcl[token])

\* The channels some emitter of the registry holds a sender of.
AttachedAnywhere(tcl) == UNION {Attached(tcl, t) : t \in DOMAIN tcl}

\* What a step sent to channel ch, and whether it left alone what was there.
NewItems(ch) ==
    SubSeq(channels'[ch].queue, Len(channels[ch].queue) + 1, Len(channels'[ch].queue))

KeptItems(ch) ==
    /\ Len(channels'[ch].queue) >= Len(channels[ch].queue)
    /\ SubSeq(channels'[ch].queue, 1, Len(channels[ch].queue)) = channels[ch].queue

\* The notifications of `batch`, in order, whose token's emitter holds a
\* sender of the live channel ch before the step.
Expected(ch, batch) ==
    LET ForCh(n) == /\ n.token \in DOMAIN token_to_callback_list
                    /\ ch \in Attached(token_to_callback_list, n.token)
                    /\ channels[ch].alive
    IN SelectSeq(batch, ForCh)

IsRegister == last'.op = "register"
IsUnregister == last'.op = "unregister"
IsProcess == last'.op = "process_notifications"
IsClear == last'.op = "clear"

PollOk == <<TransportCall("get_notifications", "", TRUE)>>

\* ----------------------------------------------------------------- claims

\* C1: subscribing again with an equal config, with no unsubscribe of the
\* config's token and no clear() in between, makes no further transport
\* register_notification call (the first subscribe makes exactly one), and
\* every live endpoint those subscribes returned receives every notification
\* dispatched afterwards for the config's token.
C1_SubscribeIdempotent ==
    [][ /\ (IsRegister /\ last'.result = Ok) =>
               last'.calls =
                   IF handed[last'.config] = {}
                   THEN <<TransportCall("register_notification", last'.config, TRUE)>>
                   ELSE <<>>
        /\ IsProcess =>
               \A c \in registered_config : \A ch \in handed[c] :
                   channels[ch].alive =>
                       \A i \in 1..last'.done :
                           last'.batch[i].token = config_to_token[c] =>
                               last'.batch[i] \in Range(NewItems(ch))
      ]_vars

\* C2: when every token of the polled batch is registered, dispatch sends
\* each notification exactly once, in batch order, to every live endpoint
\* attached to the notification's token, and nothing to any other endpoint.
C2_DispatchExactlyOnce ==
    [][ ( /\ IsProcess
          /\ last'.calls = PollOk
          /\ \A i \in DOMAIN last'.batch :
                 last'.batch[i].token \in DOMAIN token_to_callback_list )
        => \A ch \in DOMAIN channels :
               /\ KeptItems(ch)
               /\ NewItems(ch) = Expected(ch, last'.batch)
      ]_vars

\* A batch for two registered tokens has been dispatched: one endpoint got
\* the first notification only, another one the second.
C2_Witness ==
    /\ last.op = "process_notifications"
    /\ last.result = Ok
    /\ Len(last.batch) = 2
    /\ last.batch[1].token # last.batch[2].token
    /\ \E ch1, ch2 \in DOMAIN channels :
           /\ channels[ch1].alive /\ channels[ch2].alive
           /\ last.batch[1] \in Range(channels[ch1].queue)
           /\ last.batch[2] \notin Range(channels[ch1].queue)
           /\ last.batch[2] \in Range(channels[ch2].queue)

\* C3: the three maps agree after every call: registered_config is the key
\* set of config_to_token, and the tokens config_to_token maps to are the
\* keys of token_to_callback_list.
C3_MapsConsistent ==
    /\ registered_config = DOMAIN config_to_token
    /\ Range(config_to_token) = DOMAIN token_to_callback_list

\* Two configs are registered and the last call failed.
C3_Witness ==
    /\ Cardinality(registered_config) = 2
    /\ last.op \in {"register", "unregister", "process_notifications"}
    /\ last.result # Ok

\* What a failed call must leave alone: the three maps, the channels and
\* the slot counter.
RegistryUnchanged ==
    UNCHANGED <<registered_config, config_to_token, token_to_callback_list,
                channels, COUNTER>>

\* C4: when the transport refuses register_notification, subscribe returns
\* that error and changes none of the three maps.
C4_RegisterFailureAtomic ==
    [][ ( /\ IsRegister
          /\ last'.calls = <<TransportCall("register_notification", last'.config, FALSE)>> )
        => /\ last'.result = TransportError
           /\ last'.rx = 0
           /\ RegistryUnchanged
      ]_vars

\* A subscribe for an unregistered config has just been refused while
\* another config is registered.
C4_Witness ==
    /\ last.op = "register"
    /\ last.result = TransportError
    /\ last.config \notin registered_config
    /\ registered_config # {}

\* C5: when the transport refuses unregister_notification for a known token,
\* unsubscribe returns the error, the registry is unchanged, and the token's
\* live endpoints receive the notifications dispatched for it afterwards.
C5_UnregisterFailureAtomic ==
    [][ /\ ( /\ IsUnregister
             /\ last'.calls = <<TransportCall("unregister_notification", last'.token, FALSE)>> )
           => /\ last'.result = TransportError
              /\ last'.token \in DOMAIN token_to_callback_list'
              /\ RegistryUnchanged
        /\ ( /\ last.op = "unregister"
             /\ last.result = TransportError
             /\ IsProcess )
           => \A ch \in Attached(token_to_callback_list, last.token) :
                  channels[ch].alive =>
                      \A i \in 1..last'.done :
                          last'.batch[i].token = last.token =>
                              last'.batch[i] \in Range(NewItems(ch))
      ]_vars

\* An unsubscribe of a token with two live endpoints has just been refused.
C5_Witness ==
    /\ last.op = "unregister"
    /\ last.result = TransportError
    /\ last.token \in DOMAIN token_to_callback_list
    /\ \E ch1, ch2 \in Attached(token_to_callback_list, last.token) :
           ch1 # ch2 /\ channels[ch1].alive /\ channels[ch2].alive

\* C6: unsubscribe of a token the registry does not have returns a
\* NotificationError, calls nothing on the transport and changes nothing.
C6_UnregisterUnknown ==
    [][ (IsUnregister /\ last'.token \notin DOMAIN token_to_callback_list)
        => /\ last'.result = NotificationError
           /\ last'.calls = <<>>
           /\ RegistryUnchanged
      ]_vars

\* An unsubscribe of an unknown token has just failed while another token is
\* registered.
C6_Witness ==
    /\ last.op = "unregister"
    /\ last.result = NotificationError
    /\ last.token \notin DOMAIN token_to_callback_list
    /\ token_to_callback_list # EmptyMap

\* C7: a successful unsubscribe of a subscribed token makes exactly one
\* unregister_notification call for it, removes its emitter and every
\* config mapped to it and keeps the other configs; a later dispatch whose
\* batch has a notification for the token, not registered again since,
\* returns a NotificationError.
C7_UnregisterRoundTrip ==
    [][ /\ (IsUnregister /\ last'.result = Ok)
           => /\ last'.token \in DOMAIN token_to_callback_list
              /\ last'.calls = <<TransportCall("unregister_notification", last'.token, TRUE)>>
              /\ last'.token \notin DOMAIN token_to_callback_list'
              /\ last'.token \notin Range(config_to_token')
              /\ registered_config' = DOMAIN config_to_token'
              /\ \A c \in DOMAIN config_to_token :
                     config_to_token[c] # last'.token =>
                         /\ c \in registered_config'
                         /\ c \in DOMAIN config_to_token'
                         /\ config_to_token'[c] = config_to_token[c]
        /\ ( /\ IsProcess
             /\ last'.calls = PollOk
             /\ \E i \in DOMAIN last'.batch : last'.batch[i].token \in unsubscribed )
           => last'.result = NotificationError
      ]_vars

\* A dispatch has just failed on a notification for a token that was
\* unsubscribed.
C7_Witness ==
    /\ last.op = "process_notifications"
    /\ last.result = NotificationError
    /\ \E i \in DOMAIN last.batch : last.batch[i].token \in unsubscribed

\* C8: a polled batch with a notification for an unknown token makes dispatch
\* return a NotificationError; the notifications before the first such one
\* are delivered, those after it are not, and no dispatch delivers anything
\* that is not in its own batch.
UnknownAt(batch, i) == batch[i].token \notin DOMAIN token_to_callback_list

FirstUnknown(batch) ==
    CHOOSE i \in DOMAIN batch :
        UnknownAt(batch, i) /\ \A j \in 1..(i - 1) : ~UnknownAt(batch, j)

C8_DispatchAborts ==
    [][ (IsProcess /\ last'.calls = PollOk)
        => /\ (\E i \in DOMAIN last'.batch : UnknownAt(last'.batch, i))
              => /\ last'.result = NotificationError
                 /\ \A ch \in DOMAIN channels :
                        /\ KeptItems(ch)
                        /\ NewItems(ch) =
                               Expected(ch, SubSeq(last'.batch, 1,
                                                   FirstUnknown(last'.batch) - 1))
           /\ UNCHANGED <<registered_config, config_to_token>>
           /\ DOMAIN token_to_callback_list' = DOMAIN token_to_callback_list
           /\ \A ch \in DOMAIN channels :
                  Range(NewItems(ch)) \subseteq Range(last'.batch)
      ]_vars

\* A batch of three has just been aborted at its second notification: a live
\* endpoint of the third notification's token got the first and not the third.
C8_Witness ==
    /\ last.op = "process_notifications"
    /\ last.result = NotificationError
    /\ Len(last.batch) = 3
    /\ last.done = 1
    /\ last.batch[3].token \in DOMAIN token_to_callback_list
    /\ \E ch \in Attached(token_to_callback_list, last.batch[3].token) :
           /\ channels[ch].alive
           /\ last.batch[1] \in Range(channels[ch].queue)
           /\ last.batch[3] \notin Range(channels[ch].queue)

\* C9: clear() calls nothing on the transport and empties the three maps, and
\* an endpoint no emitter of the registry holds a sender of (after clear():
\* every endpoint handed out before it) is never attached again and is sent
\* nothing more.
C9_ClearLocal ==
    [][ /\ IsClear
           => /\ last'.calls = <<>>
              /\ registered_config' = {}
              /\ config_to_token' = EmptyMap
              /\ token_to_callback_list' = EmptyMap
              /\ UNCHANGED <<channels, COUNTER>>
        /\ \A ch \in DOMAIN channels :
               ch \notin AttachedAnywhere(token_to_callback_list)
               => /\ ch \notin AttachedAnywhere(token_to_callback_list')
                  /\ NewItems(ch) = <<>>
      ]_vars

\* The registry has just been cleared while two endpoints were alive, one
\* of which had received a notification.
C9_Witness ==
    /\ last.op = "clear"
    /\ \E ch1, ch2 \in DOMAIN channels :
           /\ ch1 # ch2
           /\ channels[ch1].alive /\ channels[ch2].alive
           /\ channels[ch1].queue # <<>>

\* C10, as claimed: after clear() and before any new subscribe, a dispatch
\* whose poll succeeds delivers nothing and returns no error.
C10_ClearThenDispatchSilent ==
    [][ (cleared /\ IsProcess /\ last'.calls = PollOk)
        => /\ last'.result = Ok
           /\ UNCHANGED channels
      ]_vars

\* C10, amended: after clear() and before any new subscribe, a dispatch
\* delivers nothing; it returns no error exactly when the poll succeeds with
\* an empty batch, and a NotificationError at the first notification when the
\* batch is not empty.
C10_ClearThenDispatch ==
    [][ (cleared /\ IsProcess)
        => /\ UNCHANGED channels
           /\ last'.result = Ok <=> (last'.calls = PollOk /\ last'.batch = <<>>)
           /\ (last'.calls = PollOk /\ last'.batch # <<>>)
              => (last'.result = NotificationError /\ last'.done = 0)
      ]_vars

\* After a clear() with a live endpoint left over, a dispatch of a non-empty
\* batch has just failed.
C10_Witness ==
    /\ cleared
    /\ last.op = "process_notifications"
    /\ last.result = NotificationError
    /\ last.batch # <<>>
    /\ \E ch \in DOMAIN channels : channels[ch].alive

\* C11: a dropped receive endpoint among the listeners of a token changes
\* nothing for the others: the drop itself leaves the registry alone, and a
\* dispatch made while a listener of the token is dead still sends every
\* emitted notification of the token to each live listener, keeps the live
\* listeners attached and keeps the token and its configs registered.
HasDeadListener(t) ==
    \E ch \in Attached(token_to_callback_list, t) : ~channels[ch].alive

C11_ListenerIsolation ==
    [][ /\ last'.op = "drop"
           => UNCHANGED <<registered_config, config_to_token, token_to_callback_list>>
        /\ IsProcess
           => \A t \in DOMAIN token_to_callback_list :
                  HasDeadListener(t)
                  => /\ t \in DOMAIN token_to_callback_list'
                     /\ UNCHANGED <<registered_config, config_to_token>>
                     /\ \A ch \in Attached(token_to_callback_list, t) :
                            channels[ch].alive
                            => /\ ch \in Attached(token_to_callback_list', t)
                               /\ \A i \in 1..last'.done :
                                      last'.batch[i].token = t
                                      => last'.batch[i] \in Range(NewItems(ch))
      ]_vars

\* Of two endpoints of one config one was dropped, and a notification for the
\* config's token has just been dispatched to the other.
C11_Witness ==
    /\ last.op = "process_notifications"
    /\ last.done >= 1
    /\ \E c \in registered_config : \E ch1, ch2 \in handed[c] :
           /\ ~channels[ch1].alive
           /\ channels[ch2].alive
           /\ last.batch[1].token = config_to_token[c]
           /\ last.batch[1] \in Range(channels[ch2].queue)

\* C12: every token config_to_token maps to has at least one listener in
\* its emitter.
C12_ListenersNeverEmpty ==
    \A t \in Range(config_to_token) :
        /\ t \in DOMAIN token_to_callback_list
        /\ DOMAIN token_to_callback_list[t] # {}

\* C20: one emit (a dispatch of a single notification of a registered token)
\* appends the value exactly once to the queue of every listener whose
\* receiver is alive, removes every listener whose receiver was dropped and
\* removes no other.
C20_EmitDeliversAndPrunes ==
    [][ (IsProcess /\ Len(last'.batch) = 1 /\ last'.done = 1)
        => LET v == last'.batch[1]
               senders == token_to_callback_list[v.token]
           IN /\ v.token \in DOMAIN token_to_callback_list'
              /\ DOMAIN token_to_callback_list'[v.token] =
                     {id \in DOMAIN senders : channels[senders[id]].alive}
              /\ \A id \in DOMAIN senders :
                     /\ channels[senders[id]].alive
                        => /\ token_to_callback_list'[v.token][id] = senders[id]
                           /\ channels'[senders[id]].queue =
                                  Append(channels[senders[id]].queue, v)
                     /\ ~channels[senders[id]].alive
                        => channels'[senders[id]] = channels[senders[id]]
      ]_vars

\* An emit has just pruned a dropped listener and delivered to a live one.
C20_Witness ==
    /\ last.op = "process_notifications"
    /\ Len(last.batch) = 1
    /\ last.done = 1
    /\ \E ch1, ch2 \in DOMAIN channels :
           /\ ~channels[ch1].alive
           /\ ch1 \notin AttachedAnywhere(token_to_callback_list)
           /\ channels[ch2].alive
           /\ ch2 \in Attached(token_to_callback_list, last.batch[1].token)
           /\ channels[ch2].queue = <<last.batch[1]>>

\* ------------------------------------------------- the worker, observed
\* A step that is one do_work of the worker.
IsDoWork == phase = "do_work" /\ phase' = "process_events"

\* What the do_work of this step called.
Called(c) == c \in Range(tick'.calls)

\* `a` and `b` are both among the calls, every `a` before every `b`.
CalledBefore(a, b) ==
    /\ Called(a)
    /\ Called(b)
    /\ \A i, j \in DOMAIN tick'.calls :
           (tick'.calls[i] = a /\ tick'.calls[j] = b) => i < j

RegistryEmpty ==
    /\ registered_config' = {}
    /\ config_to_token' = EmptyMap
    /\ token_to_callback_list' = EmptyMap

\* C13: a do_work with the network up and the transport not connected does
\* not dispatch; it calls disconnect() and then connect(); a worker that was
\* Connected has, before them, cleared the registry and emitted false; and
\* when connect() is Ok and connected() true afterwards, the worker ends
\* Connected, the true event being the last thing it did.
C13_ReconnectTick ==
    [][ (IsDoWork /\ is_nw_connected /\ ~client_connected)
        => /\ ~Called("process_notifications")
           /\ polled' = polled
           /\ CalledBefore("disconnect", "connect")
           /\ is_db_connected
              => /\ RegistryEmpty
                 /\ CalledBefore("clear", "disconnect")
                 /\ CalledBefore(Emitted(FALSE), "disconnect")
                 /\ Emitted(FALSE) \in Range(effects')
           /\ (tick'.result = Ok /\ client_connected')
              => /\ is_db_connected'
                 /\ tick'.calls[Len(tick'.calls)] = Emitted(TRUE)
                 /\ effects'[Len(effects')] = Emitted(TRUE)
           /\ ~(tick'.result = Ok /\ client_connected')
              => /\ ~is_db_connected'
                 /\ ~Called(Emitted(TRUE))
      ]_vars

\* A Connected worker with subscriptions has just lost the backend, cleared
\* them and reconnected.
C13_Witness ==
    /\ tick.calls = <<"connected", "clear", Emitted(FALSE), "disconnect",
                      "connect", "connected", Emitted(TRUE)>>
    /\ is_db_connected
    /\ last.op = "clear"
    /\ registered_config = {}
    /\ COUNTER > 0

\* C14: a do_work with the network down touches neither the registry nor
\* the transport; a Connected worker becomes Disconnected and emits false
\* once, a Disconnected one changes nothing and emits nothing.
C14_NetworkDownTick ==
    [][ (IsDoWork /\ ~is_nw_connected)
        => /\ UNCHANGED <<regVars, client_connected, is_nw_connected,
                          network_connection_status, dispatched, stale>>
           /\ tick'.result = Ok
           /\ IF is_db_connected
              THEN /\ ~is_db_connected'
                   /\ tick'.calls = <<Emitted(FALSE)>>
                   /\ effects' = Keep(effects, <<Emitted(FALSE)>>)
              ELSE /\ tick'.calls = <<>>
                   /\ UNCHANGED <<is_db_connected, effects>>
      ]_vars

\* The network went down under a Connected worker with a subscription: the
\* subscription and the transport's connection are still there.
C14_Witness ==
    /\ tick.calls = <<Emitted(FALSE)>>
    /\ ~is_db_connected
    /\ client_connected
    /\ registered_config # {}
    /\ phase = "process_events"

\* C15, as stated: with the network up and a transport that is connected
\* from its first successful connect() on, the worker has emitted one false
\* and then one true event and cleared the registry once by the time its
\* first dispatch succeeds.
C15_FalseThenTrue ==
    dispatched
    => /\ SelectSeq(effects, LAMBDA e : e # "clear") = <<Emitted(FALSE), Emitted(TRUE)>>
       /\ Len(SelectSeq(effects, LAMBDA e : e = "clear")) = 1

\* C15, amended: the worker starts Disconnected, so all it does before (and
\* until) its first successful dispatch is emit true once, when connect()
\* succeeds: no false event, no clear.
C15_TrueOnly ==
    /\ effects = IF is_db_connected THEN <<Emitted(TRUE)>> ELSE <<>>
    /\ dispatched => is_db_connected

C15_Witness ==
    /\ dispatched
    /\ tick = Tick(<<"connected", "process_notifications">>, Ok)
    /\ effects = <<Emitted(TRUE)>>
    /\ registered_config # {}

\* C16: every dispatch made from a do_work is made by a Connected worker,
\* whose last event was true.
C16_DispatchOnlyConnected ==
    [][ (IsDoWork /\ Called("process_notifications"))
        => /\ is_db_connected
           /\ effects # <<>>
           /\ effects[Len(effects)] = Emitted(TRUE)
      ]_vars

\* C17: when the worker reconnects and emits true, no config registered
\* while it was Connected before is still in registered_config.
C17_NoStaleSubscriptions ==
    [][ (IsDoWork /\ Called("connect") /\ Called(Emitted(TRUE)))
        => stale \cap registered_config' = {}
      ]_vars

\* C18: a do_work whose connect() fails returns that error, leaves the
\* worker Disconnected and emits no true event, and the loop goes on; every
\* do_work with the network up and the transport not connected calls
\* disconnect() and connect(), whatever happened before.
C18_FailedConnectRetried ==
    [][ IsDoWork
        => /\ (is_nw_connected /\ ~client_connected)
              => CalledBefore("disconnect", "connect")
           /\ Called("connect")
              => /\ (tick'.calls[Len(tick'.calls)] = "connect")
                        <=> (tick'.result = TransportError)
                 /\ tick'.result \in {Ok, TransportError}
           /\ (Called("connect") /\ tick'.result = TransportError)
              => /\ ~is_db_connected'
                 /\ ~client_connected'
                 /\ ~Called(Emitted(TRUE))
                 /\ phase' = "process_events"
      ]_vars

\* A worker that had been Connected has just failed to reconnect.
C18_Witness ==
    /\ tick = Tick(<<"connected", "clear", Emitted(FALSE), "disconnect", "connect">>,
                   TransportError)
    /\ ~is_db_connected
    /\ ~client_connected
    /\ phase = "process_events"

\* C19: while the loop runs and connect() succeeds in the end, a worker that
\* finds the transport not connected with the network up becomes Connected,
\* its last event true, unless the network goes down first.
C19_EventuallyConnected ==
    (is_nw_connected /\ ~client_connected)
    ~> \/ /\ is_db_connected
          /\ effects # <<>>
          /\ effects[Len(effects)] = Emitted(TRUE)
       \/ ~is_nw_connected

\* The worker is Connected again after having lost the backend.
C19_Witness ==
    /\ is_db_connected
    /\ is_nw_connected
    /\ Len(effects) >= 3
    /\ SubSeq(effects, Len(effects) - 2, Len(effects))
           = <<"clear", Emitted(FALSE), Emitted(TRUE)>>

\* C21: what a live listener is sent by a dispatch is, after everything it
\* was sent before, the emitted notifications of its token in batch order,
\* each once; so its queue holds the notifications in the order the
\* transport produced them, across batches too.
C21_ListenerFifo ==
    [][ IsProcess
        => \A ch \in DOMAIN channels :
               channels[ch].alive
               => /\ KeptItems(ch)
                  /\ NewItems(ch) = Expected(ch, SubSeq(last'.batch, 1, last'.done))
                  /\ \A i, j \in DOMAIN channels'[ch].queue :
                         i < j => channels'[ch].queue[i].seq < channels'[ch].queue[j].seq
      ]_vars

\* A listener holds three notifications, two of one batch and then one of a
\* later batch.
C21_Witness ==
    /\ last.op = "process_notifications"
    /\ Len(last.batch) = 1
    /\ last.done = 1
    /\ \E ch \in DOMAIN channels :
           /\ channels[ch].alive
           /\ Len(channels[ch].queue) = 3
           /\ channels[ch].queue[3] = last.batch[1]
           /\ channels[ch].queue[1].seq = 1
           /\ channels[ch].queue[2].seq = 2

\* C30: a subscribe of a config that is not registered, whatever token the
\* transport answers, leaves every listener of every registered token in
\* place: each token keeps its emitter and each emitter its senders.
C30_SubscribeKeepsListeners ==
    [][ (IsRegister /\ last'.result = Ok /\ last'.config \notin registered_config)
        => \A t \in DOMAIN token_to_callback_list :
               /\ t \in DOMAIN token_to_callback_list'
               /\ \A id \in DOMAIN token_to_callback_list[t] :
                      /\ id \in DOMAIN token_to_callback_list'[t]
                      /\ token_to_callback_list'[t][id] = token_to_callback_list[t][id]
      ]_vars

\* The connection_status emits among the calls of a do_work, and the last
\* emitted value.
IsEmit(c) == c \in {Emitted(FALSE), Emitted(TRUE)}

Emits(calls) == SelectSeq(calls, IsEmit)

LastEmit(log) == LET e == Emits(log) IN IF e = <<>> THEN "none" ELSE e[Len(e)]

\* C28: once the worker has emitted false because the network was down and
\* then finds the network up and the transport connected, it emits true in
\* the end, unless the network or the transport goes away again first.
C28_TrueAfterNetworkReturns ==
    ( /\ tick.calls = <<Emitted(FALSE)>>
      /\ phase = "do_work"
      /\ is_nw_connected
      /\ client_connected )
    ~> \/ LastEmit(effects) = Emitted(TRUE)
       \/ ~is_nw_connected
       \/ ~client_connected

\* C29: the events of the worker alternate, starting with true: a do_work
\* emits nothing, or the negation of the state it started in, or false and
\* then true when it started Connected; the state it ends in is the last
\* value it emitted, or the state it started in if it emitted nothing (a
\* failed reconnect of a Disconnected worker emits nothing); no other step
\* emits or changes the state; and the state is always the last emitted
\* value, Disconnected before the first event.
C29_EventsAlternate ==
    [][ /\ IsDoWork
           => LET e == Emits(tick'.calls)
              IN /\ \/ e = <<>>
                    \/ e = <<Emitted(~is_db_connected)>>
                    \/ is_db_connected /\ e = <<Emitted(FALSE), Emitted(TRUE)>>
                 /\ is_db_connected' = IF e = <<>> THEN is_db_connected
                                       ELSE e[Len(e)] = Emitted(TRUE)
                 /\ Emits(effects') = Emits(Keep(effects, tick'.calls))
                 /\ (~is_db_connected /\ tick'.result = TransportError) => e = <<>>
        /\ ~IsDoWork => UNCHANGED <<is_db_connected, effects>>
        /\ is_db_connected' <=> (LastEmit(effects') = Emitted(TRUE))
        /\ \A i \in 1..(Len(Emits(effects')) - 1) :
               Emits(effects')[i] # Emits(effects')[i + 1]
        /\ (effects' # <<>> /\ Len(effects') < MaxEvents)
               => Emits(effects')[1] = Emitted(TRUE)
      ]_vars

\* True, false, true have been emitted, and a reconnect attempt of the
\* Disconnected worker has just failed in between without an event.
C29_Witness ==
    /\ effects = <<Emitted(TRUE), Emitted(FALSE)>>
    /\ ~is_db_connected
    /\ tick = Tick(<<"connected", "disconnect", "connect">>, TransportError)

-----------------------------------------------------------------------------
\* Application: the workers of the process and the loop that runs them
\* (framework/application.rs).

MaxIters == 2

\* The boxed workers handed to add_worker.
Workers == {"w1", "w2"}

\* What a worker call returns: Ok(()) or an error of the worker.
WorkerError == "worker_error"

WorkerResults == {Ok, WorkerError}

\* The i-th worker of the vector, as `self.workers[i]` and the `for worker in
\* &mut self.workers` loops reach it.
WorkerAtReversed(i) == workers[Len(workers) + 1 - i]

WorkerAt(i) == workers[i]

\* One worker call as the application made it.  The result of a worker's
\* process_events is only logged and is not kept.
Entry(call, worker, result) ==
    [call |-> call, worker |-> worker, iter |-> iter, result |-> result]

\* The application apart from the registry, the database worker and the value.
OnlyApplication == UNCHANGED <<regVars, supVars, valVars, emVars, restVars>>

\* Application::add_worker: push, before execute borrows the application.
add_worker(w) ==
    /\ pc.at = "new"
    /\ w \notin Range(workers)
    /\ workers' = Append(workers, w)
    /\ UNCHANGED <<quit, pc, iter, history, requested, preset>>

\* BoolFlag::set on the quit flag of the context, before execute is called.
QuitSet(v) ==
    /\ pc.at = "new"
    /\ quit # v
    /\ quit' = v
    /\ UNCHANGED <<preset, workers, pc, iter, history, requested>>

\* Application::execute: the call of intialize.
execute ==
    /\ pc.at = "new"
    /\ pc' = At("intialize", 1, 0)
    /\ preset' = quit
    /\ UNCHANGED <<workers, quit, iter, history, requested>>

\* Application::intialize, one turn of its loop: the worker is called with a
\* clone of the context, through which it may write the quit flag; either
\* result of the call leads to the next worker.
IntializePropagates(result, q) ==
    /\ pc.at = "intialize"
    /\ pc.i <= Len(workers)
    /\ history' = Append(history, Entry("intialize", WorkerAt(pc.i), result))
    /\ quit' = q
    /\ pc' = IF result = Ok THEN At("intialize", pc.i + 1, 0) ELSE At("done", 0, 0)
    /\ UNCHANGED <<preset, workers, iter, requested>>

Intialize(result, q) ==
    /\ pc.at = "intialize"
    /\ pc.i <= Len(workers)
    /\ history' = Append(history, Entry("intialize", WorkerAt(pc.i), result))
    /\ quit' = q
    /\ pc' = At("intialize", pc.i + 1, 0)
    /\ UNCHANGED <<preset, workers, iter, requested>>

\* A faulty loop: the flag is tested before the body is entered.
IntializeDoneTestsQuit ==
    /\ pc.at = "intialize"
    /\ pc.i > Len(workers)
    /\ IF quit
       THEN /\ pc' = At("deinitialize", 1, 0)
            /\ UNCHANGED <<iter, requested>>
       ELSE /\ pc' = At("do_work", 1, 0)
            /\ iter' = iter + 1
            /\ requested' = FALSE
    /\ UNCHANGED <<preset, workers, quit, history>>

\* Application::intialize returns Ok and execute calls do_work, whose
\* `while { body } {}` enters the body before the flag is read.
IntializeDone ==
    /\ pc.at = "intialize"
    /\ pc.i > Len(workers)
    /\ pc' = At("do_work", 1, 0)
    /\ iter' = iter + 1
    /\ requested' = FALSE
    /\ UNCHANGED <<preset, workers, quit, history>>

\* Application::do_work, one turn of the `for i in 0..self.workers.len()`
\* loop up to the call of self.process_events(): worker i is ticked and either
\* result leads on.
ApplicationDoWorkStopsOnError(result, q) ==
    /\ pc.at = "do_work"
    /\ pc.i <= Len(workers)
    /\ history' = Append(history, Entry("do_work", WorkerAt(pc.i), result))
    /\ quit' = q
    /\ requested' = (requested \/ q)
    /\ pc' = IF result = Ok THEN At("process_events", pc.i, 1)
                            ELSE At("deinitialize", 1, 0)
    /\ UNCHANGED <<preset, workers, iter>>

ApplicationDoWorkLeavesOnQuit(result, q) ==
    /\ pc.at = "do_work"
    /\ pc.i <= Len(workers)
    /\ history' = Append(history, Entry("do_work", WorkerAt(pc.i), result))
    /\ quit' = q
    /\ requested' = (requested \/ q)
    /\ pc' = IF q THEN At("deinitialize", 1, 0) ELSE At("process_events", pc.i, 1)
    /\ UNCHANGED <<preset, workers, iter>>

ApplicationDoWork(result, q) ==
    /\ pc.at = "do_work"
    /\ pc.i <= Len(workers)
    /\ history' = Append(history, Entry("do_work", WorkerAt(pc.i), result))
    /\ quit' = q
    /\ requested' = (requested \/ q)
    /\ pc' = At("process_events", pc.i, 1)
    /\ UNCHANGED <<preset, workers, iter>>

\* Application::process_events, one turn of its loop, called after the tick of
\* worker pc.i: every worker's process_events is called; after the last the
\* for loop of do_work moves to its next worker.
ApplicationProcessEvents(q) ==
    /\ pc.at = "process_events"
    /\ pc.j <= Len(workers)
    /\ history' = Append(history, Entry("process_events", WorkerAt(pc.j), Ok))
    /\ quit' = q
    /\ requested' = (requested \/ q)
    /\ pc' = IF pc.j < Len(workers) THEN At("process_events", pc.i, pc.j + 1)
                                    ELSE At("do_work", pc.i + 1, 0)
    /\ UNCHANGED <<preset, workers, iter>>

\* Application::do_work, the end of the loop body: the flag is read (for the
\* sleep and as the loop condition, nothing running between the two reads);
\* unset, the body runs again; set, do_work returns Ok and execute calls
\* deinitialize.
EndIterationIgnoresQuit ==
    /\ pc.at = "do_work"
    /\ pc.i > Len(workers)
    /\ iter < MaxIters
    /\ pc' = At("do_work", 1, 0)
    /\ iter' = iter + 1
    /\ requested' = FALSE
    /\ UNCHANGED <<preset, workers, quit, history>>

EndIteration ==
    /\ pc.at = "do_work"
    /\ pc.i > Len(workers)
    /\ IF quit
       THEN /\ pc' = At("deinitialize", 1, 0)
            /\ UNCHANGED <<iter, requested>>
       ELSE /\ iter < MaxIters
            /\ pc' = At("do_work", 1, 0)
            /\ iter' = iter + 1
            /\ requested' = FALSE
    /\ UNCHANGED <<preset, workers, quit, history>>

\* Application::deinitialize, one turn of its loop.
Deinitialize(result, q) ==
    /\ pc.at = "deinitialize"
    /\ pc.i <= Len(workers)
    /\ history' = Append(history, Entry("deinitialize", WorkerAt(pc.i), result))
    /\ quit' = q
    /\ pc' = At("deinitialize", pc.i + 1, 0)
    /\ UNCHANGED <<preset, workers, iter, requested>>

\* Application::deinitialize returns Ok and execute returns.
DeinitializeDone ==
    /\ pc.at = "deinitialize"
    /\ pc.i > Len(workers)
    /\ pc' = At("done", 0, 0)
    /\ UNCHANGED <<preset, workers, quit, iter, history, requested>>

\* The steps execute takes once it is called.
Run ==
    \/ \E result \in WorkerResults, q \in BOOLEAN : Intialize(result, q)
    \/ IntializeDone
    \/ \E result \in WorkerResults, q \in BOOLEAN : ApplicationDoWork(result, q)
    \/ \E q \in BOOLEAN : ApplicationProcessEvents(q)
    \/ EndIteration
    \/ \E result \in WorkerResults, q \in BOOLEAN : Deinitialize(result, q)
    \/ DeinitializeDone

AppNext ==
    \/ \E w \in Workers : add_worker(w) /\ OnlyApplication
    \/ \E v \in BOOLEAN : QuitSet(v) /\ OnlyApplication
    \/ execute /\ OnlyApplication
    \/ \E result \in WorkerResults, q \in BOOLEAN : Intialize(result, q) /\ OnlyApplication
    \/ IntializeDone /\ OnlyApplication
    \/ \E result \in WorkerResults, q \in BOOLEAN : ApplicationDoWork(result, q) /\ OnlyApplication
    \/ \E q \in BOOLEAN : ApplicationProcessEvents(q) /\ OnlyApplication
    \/ EndIteration /\ OnlyApplication
    \/ \E result \in WorkerResults, q \in BOOLEAN : Deinitialize(result, q) /\ OnlyApplication
    \/ DeinitializeDone /\ OnlyApplication

AppSpec == Init /\ [][AppNext]_vars

\* Every worker call returns and execute goes on from where it stands.
AppLiveSpec == Init /\ [][AppNext]_vars /\ WF_vars(Run /\ OnlyApplication)

\* What the history shows.
CallsOf(call) == SelectSeq(history, LAMBDA e : e.call = call)

Ticks(n) == SelectSeq(history, LAMBDA e : e.call = "do_work" /\ e.iter = n)

WorkersOf(entries) == [k \in DOMAIN entries |-> entries[k].worker]

IsPrefix(s, t) == Len(s) <= Len(t) /\ s = SubSeq(t, 1, Len(s))

\* The for loop of the body has gone through the whole vector.
AtCheck == pc.at = "do_work" /\ pc.i > Len(workers)

LoopLeft == pc.at \in {"deinitialize", "done"}

\* Iteration n has ticked its last worker, execute standing at `at` in
\* iteration `it`.
OverAt(at, it, n) ==
    n < it \/ (n = it /\ (at.at \in {"deinitialize", "done"}
                           \/ (at.at = "do_work" /\ at.i > Len(workers))))

IterationOver(n) == OverAt(pc, iter, n)

\* Worker w was ticked in iteration n after the k-th call of the history h.
TickedIn(h, k, w, n) ==
    \E k2 \in DOMAIN h :
        /\ k2 > k
        /\ h[k2].call = "do_work"
        /\ h[k2].worker = w
        /\ h[k2].iter = n

TickedAfter(k, w, n) == TickedIn(history, k, w, n)

\* C23: in every iteration each worker's do_work is called exactly once, in
\* the order of the add_worker calls, one call after the other: the ticks of
\* an iteration in progress are, in order, the first workers of the vector,
\* and those of an iteration that is over are the whole vector.
C23_TickOrder ==
    \A n \in 1..iter :
        /\ IsPrefix(WorkersOf(Ticks(n)), workers)
        /\ IterationOver(n) => WorkersOf(Ticks(n)) = workers
        /\ (n = iter /\ pc.at \in {"do_work", "process_events"})
               => Len(Ticks(n)) = (IF pc.at = "do_work" THEN pc.i - 1 ELSE pc.i)

C23_Witness ==
    /\ workers = <<"w2", "w1">>
    /\ iter = 2
    /\ pc.at = "done"
    /\ WorkersOf(Ticks(2)) = <<"w2", "w1">>

\* C22: a worker whose do_work returns an error in iteration N keeps no
\* worker added after it from being ticked in iteration N and no worker at all
\* from being ticked in iteration N+1, and the loop is left only with the quit
\* flag set, whatever the workers returned.
C22_SchedulerIsolation ==
    [][ /\ \A k \in DOMAIN history' :
              (history'[k].call = "do_work" /\ history'[k].result = WorkerError)
              => LET n == history'[k].iter
                 IN /\ OverAt(pc', iter', n)
                        => \A m \in DOMAIN workers :
                               (\E l \in 1..(m - 1) : workers[l] = history'[k].worker)
                               => TickedIn(history', k, workers[m], n)
                    /\ OverAt(pc', iter', n + 1)
                        => \A w \in Range(workers) : TickedIn(history', k, w, n + 1)
        /\ (~LoopLeft /\ LoopLeft') => (AtCheck /\ quit)
        /\ (AtCheck /\ ~quit) => (iter' = iter + 1 /\ pc' = At("do_work", 1, 0))
      ]_vars

C22_Witness ==
    /\ pc.at = "done"
    /\ iter = 2
    /\ Len(workers) = 2
    /\ \E k \in DOMAIN history :
           /\ history[k] = [call |-> "do_work", worker |-> workers[1], iter |-> 1,
                            result |-> WorkerError]
           /\ TickedAfter(k, workers[2], 1)
           /\ TickedAfter(k, workers[1], 2)

\* C24: execute calls intialize on every worker exactly once before any tick
\* and deinitialize on every worker exactly once after the last tick; an error
\* of a worker's intialize or deinitialize stops neither the calls on the
\* other workers nor the loop: the history opens with one intialize per
\* worker, closes with one deinitialize per worker, and has an iteration of
\* ticks between the two whatever the calls returned.
C24_InitializeAndDeinitialize ==
    /\ IsPrefix(WorkersOf(CallsOf("intialize")), workers)
    /\ IsPrefix(WorkersOf(CallsOf("deinitialize")), workers)
    /\ \A k \in DOMAIN history :
           /\ history[k].call = "intialize" => k <= Len(workers)
           /\ history[k].call \in {"do_work", "process_events"}
                  => /\ k > Len(workers)
                     /\ WorkersOf(CallsOf("intialize")) = workers
           /\ history[k].call = "deinitialize"
                  => /\ \A k2 \in DOMAIN history :
                            k2 > k => history[k2].call = "deinitialize"
                     /\ WorkersOf(Ticks(iter)) = workers
    /\ pc.at \notin {"new", "intialize"} => WorkersOf(CallsOf("intialize")) = workers
    /\ pc.at = "done"
           => /\ WorkersOf(CallsOf("deinitialize")) = workers
              /\ iter >= 1
              /\ WorkersOf(Ticks(1)) = workers

C24_Witness ==
    /\ pc.at = "done"
    /\ Len(workers) = 2
    /\ CallsOf("intialize")[1].result = WorkerError
    /\ CallsOf("deinitialize")[1].result = WorkerError
    /\ CallsOf("intialize")[2].worker = workers[2]
    /\ CallsOf("deinitialize")[2].worker = workers[2]

\* C25, as stated: the quit flag found set at some point of an iteration, the
\* iteration is the last: the loop is left at its end.
C25_QuitSetEndsLoop ==
    [][ (AtCheck /\ requested) => (pc' = At("deinitialize", 1, 0) /\ iter' = iter) ]_vars

\* C25, as the code has it: the flag is read only once the last worker of the
\* iteration has been ticked; set during the iteration and still set at that
\* point, every worker of the iteration has been ticked, no further iteration
\* starts and deinitialize then runs on all workers.
C25_QuitReadBetweenIterations ==
    [][ /\ (pc.at \in {"do_work", "process_events"} /\ ~AtCheck)
               => (pc'.at \in {"do_work", "process_events"} /\ iter' = iter)
        /\ (AtCheck /\ requested /\ quit)
               => /\ WorkersOf(Ticks(iter)) = workers
                  /\ pc' = At("deinitialize", 1, 0)
                  /\ iter' = iter
        /\ LoopLeft => (iter' = iter /\ LoopLeft')
        /\ pc'.at = "done" => WorkersOf(CallsOf("deinitialize")) = workers
      ]_vars

C25_Witness ==
    /\ pc.at = "done"
    /\ Len(workers) = 2
    /\ iter = 2
    /\ requested
    /\ Len(Ticks(2)) = 2

\* C26: the quit flag set and staying set, every worker call returning,
\* execute ends: the loop is left at the end of the iteration in progress,
\* every worker is deinitialized and execute returns.
C26_QuitTerminates ==
    /\ (quit /\ pc.at = "intialize") ~> (~quit \/ pc.at = "done")
    /\ \A n \in 1..MaxIters :
           (quit /\ iter = n /\ pc.at \in {"do_work", "process_events", "deinitialize"})
           ~> \/ ~quit
              \/ /\ pc.at = "done"
                 /\ iter = n
                 /\ WorkersOf(CallsOf("deinitialize")) = workers

C26_Witness ==
    /\ pc.at = "done"
    /\ quit
    /\ iter = 2
    /\ Len(workers) = 2

-----------------------------------------------------------------------------
\* RawValue: the tagged value of a field (schema/value.rs).

\* The variants that hold something.
Variants ==
    {"String", "Integer", "Float", "Boolean", "EntityReference", "Timestamp",
     "ConnectionState", "GarageDoorState"}

\* What a variant may hold; one pair of payloads stands for each variant's own.
Payloads == {"p1", "p2"}

\* Error::DatabaseFieldError, as from_database_field builds it.
DatabaseFieldError == "DatabaseFieldError"

\* as_str .. as_garage_door_state: the matching variant gives a copy of what
\* it holds, any other the error.
as_variant_coerces(variant, v) ==
    LET textual == {"String", "EntityReference", "ConnectionState", "GarageDoorState"}
    IN IF v.variant = variant \/ (variant \in textual /\ v.variant \in textual)
       THEN v.payload
       ELSE DatabaseFieldError

as_variant(variant, v) ==
    IF v.variant = variant THEN v.payload ELSE DatabaseFieldError

\* update_str .. update_garage_door_state: the matching variant takes the new
\* payload, any other is left as it is and the error returned.
update_variant_overwrites(variant, payload, v) ==
    [value |-> RawValue(variant, payload),
     result |-> IF v.variant = variant THEN Ok ELSE DatabaseFieldError]

update_variant(variant, payload, v) ==
    IF v.variant = variant
    THEN [value |-> RawValue(variant, payload), result |-> Ok]
    ELSE [value |-> v, result |-> DatabaseFieldError]

\* set_str .. set_garage_door_state: the value becomes the variant.
set_variant(variant, payload, v) == RawValue(variant, payload)

\* The value apart from the rest of the program.
OnlyValue == UNCHANGED <<regVars, supVars, appVars, emVars, restVars>>

ValueSet(variant, payload) ==
    /\ value' = set_variant(variant, payload, value)
    /\ vlast' = ValueCall("set", variant, payload, Ok)

\* set_unspecified
ValueSetUnspecified ==
    /\ value' = Unspecified
    /\ vlast' = ValueCall("set", "Unspecified", NoPayload, Ok)

ValueUpdate(variant, payload) ==
    LET r == update_variant(variant, payload, value)
    IN /\ value' = r.value
       /\ vlast' = ValueCall("update", variant, payload, r.result)

ValueAs(variant) ==
    /\ vlast' = ValueCall("as", variant, NoPayload, as_variant(variant, value))
    /\ UNCHANGED value

ValueNext ==
    \/ \E variant \in Variants, payload \in Payloads : ValueSet(variant, payload) /\ OnlyValue
    \/ ValueSetUnspecified /\ OnlyValue
    \/ \E variant \in Variants, payload \in Payloads : ValueUpdate(variant, payload) /\ OnlyValue
    \/ \E variant \in Variants : ValueAs(variant) /\ OnlyValue

ValueSpec == Init /\ [][ValueNext]_vars

\* C27: reading a value as another variant than the one it holds returns
\* DatabaseFieldError, never a coerced value: set_X(v) makes the value X(v),
\* whatever it was, after which as_X returns v and as_Y the error for every
\* other variant Y; and every as_Y call returns what the value holds if it is
\* a Y and the error if not, leaving the value alone.
C27_ValueTyping ==
    [][ /\ (vlast'.op = "set" /\ vlast'.variant \in Variants)
               => /\ value' = RawValue(vlast'.variant, vlast'.arg)
                  /\ \A y \in Variants :
                         as_variant(y, value')
                             = (IF y = vlast'.variant THEN vlast'.arg ELSE DatabaseFieldError)
        /\ vlast'.op = "as"
               => /\ vlast'.result
                         = (IF value.variant = vlast'.variant THEN value.payload
                                                               ELSE DatabaseFieldError)
                  /\ vlast'.result \in Payloads <=> value.variant = vlast'.variant
                  /\ value' = value
      ]_vars

C27_Witness ==
    /\ value = RawValue("String", "p1")
    /\ vlast = ValueCall("as", "Integer", NoPayload, DatabaseFieldError)

-----------------------------------------------------------------------------
\* C31: after clear() the first subscribe, for whatever config, one that was
\* registered before the clear included, makes a transport
\* register_notification call for the config, and the endpoint it returns is
\* the one listener of the returned token's emitter and is sent, in order, the
\* notifications that the next dispatch carries for that token.
C31_SubscribeAfterClear ==
    [][ /\ IsClear => (registered_config' = {} /\ token_to_callback_list' = EmptyMap)
        /\ (IsRegister /\ cleared)
               => /\ Len(last'.calls) = 1
                  /\ last'.calls[1].call = "register_notification"
                  /\ last'.calls[1].arg = last'.config
                  /\ last'.result = Ok
                         => /\ last'.token \in DOMAIN token_to_callback_list'
                            /\ Attached(token_to_callback_list', last'.token) = {last'.rx}
                            /\ channels'[last'.rx] = NewChannel
        /\ (IsProcess /\ last.op = "register" /\ last.result = Ok /\ last.calls # <<>>)
               => NewItems(last.rx)
                      = SelectSeq(SubSeq(last'.batch, 1, last'.done),
                                  LAMBDA n : n.token = last.token)
      ]_vars

\* A config registered before a clear has been registered again after it and
\* the dispatch that followed has delivered to the new endpoint.
C31_Witness ==
    /\ last.op = "process_notifications"
    /\ registered_config = {"c1"}
    /\ handed["c1"] = {2}
    /\ Len(channels) = 2
    /\ channels[1].alive
    /\ channels[1].queue = <<>>
    /\ Len(channels[2].queue) >= 1
    /\ unsubscribed = {}

\* C32: when get_notifications() fails, process_notifications returns the
\* transport's error, nothing is sent to any endpoint and the registry is as
\* it was; the do_work that made the call returns the error, leaves
\* is_db_connected alone and emits no connection status.
C32_FailedPollChangesNothing ==
    [][ ( /\ IsDoWork
          /\ Called("process_notifications")
          /\ last'.calls = <<TransportCall("get_notifications", "", FALSE)>> )
        => /\ last'.op = "process_notifications"
           /\ last'.result = TransportError
           /\ tick'.result = TransportError
           /\ RegistryUnchanged
           /\ UNCHANGED <<handed, unsubscribed, cleared, polled>>
           /\ is_db_connected' = is_db_connected
           /\ effects' = effects
           /\ Emits(tick'.calls) = <<>>
      ]_vars

\* A Connected worker with a live subscription has just had its poll refused.
C32_Witness ==
    /\ tick = Tick(<<"connected", "process_notifications">>, TransportError)
    /\ last.calls = <<TransportCall("get_notifications", "", FALSE)>>
    /\ is_db_connected
    /\ effects # <<>>
    /\ effects[Len(effects)] = Emitted(TRUE)
    /\ \E c \in registered_config : \E ch \in handed[c] : channels[ch].alive

-----------------------------------------------------------------------------
\* Emitters held by the application (framework/events/emitter.rs), sending
\* notifications whose fields are shared cells (schema/field.rs).

\* What a field cell may hold.
FieldValues == {"v0", "v1"}

\* DatabaseField::clone: another handle on the same cell.
CloneField(field) == field

\* DatabaseNotification::clone, derived: the token is copied and each field is
\* cloned.
CloneNotification(n) == [token |-> n.token, current |-> CloneField(n.current)]

\* The emitters apart from the rest of the program.  The counter of connect
\* and the channels are those of the process.
OnlyEmitters ==
    UNCHANGED <<registered_config, config_to_token, token_to_callback_list, polled,
                last, handed, unsubscribed, cleared, supVars, appVars, valVars,
                restVars>>

\* A faulty new_receiver: the slot is always the first.
EmitterNewReceiverSameSlot(e) ==
    /\ COUNTER < MaxSlots
    /\ emitters' = [emitters EXCEPT ![e] = connect(@, 0, NextChannel)]
    /\ COUNTER' = COUNTER + 1
    /\ channels' = Append(channels, NewChannel)
    /\ elast' = EmitterCall("connect", e, 0, NextChannel)
    /\ UNCHANGED cells

\* Emitter::new_receiver: a new channel, its sender connected under the value
\* COUNTER.fetch_add(1) returns, its receiver given to the caller.
EmitterNewReceiver(e) ==
    /\ COUNTER < MaxSlots
    /\ emitters' = [emitters EXCEPT ![e] = connect(@, COUNTER, NextChannel)]
    /\ COUNTER' = COUNTER + 1
    /\ channels' = Append(channels, NewChannel)
    /\ elast' = EmitterCall("connect", e, COUNTER, NextChannel)
    /\ UNCHANGED cells

\* Emitter::connect with a clone of the sender of an existing channel.
EmitterConnect(e, ch) ==
    /\ COUNTER < MaxSlots
    /\ ch \in DOMAIN channels
    /\ emitters' = [emitters EXCEPT ![e] = connect(@, COUNTER, ch)]
    /\ COUNTER' = COUNTER + 1
    /\ elast' = EmitterCall("connect", e, COUNTER, ch)
    /\ UNCHANGED <<channels, cells>>

\* Emitter::disconnect with a slot connect has returned, on this emitter or
\* another, removed since or not.
EmitterDisconnect(e, id) ==
    /\ id \in 0..(COUNTER - 1)
    /\ emitters' = [emitters EXCEPT ![e] = disconnect(@, id)]
    /\ elast' = EmitterCall("disconnect", e, id, 0)
    /\ UNCHANGED <<COUNTER, channels, cells>>

\* Emitter::emit of a notification just built, its field in a cell of its
\* own: a clone of it is sent on every sender, and the senders whose send
\* failed are dropped.
EmitterEmit(e) ==
    /\ Len(cells) < MaxEmits
    /\ LET n == [token |-> "t1", current |-> Len(cells) + 1]
       IN /\ cells' = Append(cells, "v0")
          /\ channels' = EmitChannels(emitters[e], channels, CloneNotification(n))
          /\ emitters' = [emitters EXCEPT ![e] = EmitSenders(@, channels)]
          /\ elast' = EmitterCall("emit", e, 0, 0)
    /\ UNCHANGED COUNTER

\* The holder of the receiver of channel ch writes the field `current` of the
\* k-th notification it was sent (DatabaseField::update_value and the
\* set_*_value methods, through borrow_mut on the cell).
FieldUpdate(ch, k, v) ==
    /\ ch \in DOMAIN channels
    /\ channels[ch].alive
    /\ k \in DOMAIN channels[ch].queue
    /\ cells' = [cells EXCEPT ![channels[ch].queue[k].current] = v]
    /\ elast' = EmitterCall("update", NoEmitter, k, ch)
    /\ UNCHANGED <<emitters, COUNTER, channels>>

\* The receiver of channel ch is dropped.
EmitterDropReceiver(ch) ==
    /\ ch \in DOMAIN channels
    /\ channels[ch].alive
    /\ channels' = [channels EXCEPT ![ch] = [alive |-> FALSE, queue |-> <<>>]]
    /\ elast' = EmitterCall("drop", NoEmitter, 0, ch)
    /\ UNCHANGED <<emitters, COUNTER, cells>>

EmitterNext ==
    \/ \E e \in EmitterIds : EmitterNewReceiver(e) /\ OnlyEmitters
    \/ \E e \in EmitterIds, ch \in 1..MaxSlots : EmitterConnect(e, ch) /\ OnlyEmitters
    \/ \E e \in EmitterIds, id \in 0..MaxSlots : EmitterDisconnect(e, id) /\ OnlyEmitters
    \/ \E e \in EmitterIds : EmitterEmit(e) /\ OnlyEmitters
    \/ \E ch \in 1..MaxSlots, k \in 1..(2 * MaxEmits), v \in FieldValues :
           FieldUpdate(ch, k, v) /\ OnlyEmitters
    \/ \E ch \in 1..MaxSlots : EmitterDropReceiver(ch) /\ OnlyEmitters

EmitterSpec == Init /\ [][EmitterNext]_vars

\* C33: disconnect(id) removes the listener connected under id and no other:
\* the other listeners of the emitter keep their senders, the other emitters
\* and the channels are as they were, and with an id the emitter does not
\* hold, or holds no longer, nothing changes.
C33_DisconnectRemovesOne ==
    [][ elast'.op = "disconnect"
        => LET e == elast'.emitter
               id == elast'.id
           IN /\ DOMAIN emitters'[e] = (DOMAIN emitters[e]) \ {id}
              /\ \A other \in DOMAIN emitters'[e] : emitters'[e][other] = emitters[e][other]
              /\ \A e2 \in EmitterIds \ {e} : emitters'[e2] = emitters[e2]
              /\ UNCHANGED <<channels, COUNTER, cells>>
              /\ id \notin DOMAIN emitters[e] => emitters' = emitters
      ]_vars

\* Of two listeners of an emitter the first has been disconnected and the
\* second is still connected.
C33_Witness ==
    /\ elast = EmitterCall("disconnect", "e1", 0, 0)
    /\ DOMAIN emitters["e1"] = {1}
    /\ emitters["e2"] = EmptyMap
    /\ Len(channels) = 2
    /\ \A ch \in DOMAIN channels : channels[ch].alive

\* C34: the identifier connect returns is none of those returned before, on
\* any emitter: it is at least the counter, which every identifier returned so
\* far is below and which never goes down; so connect replaces no listener,
\* the emitter has one listener more and the earlier ones keep their senders.
C34_ConnectIdsFresh ==
    [][ /\ COUNTER' >= COUNTER
        /\ \A e \in EmitterIds : \A id \in DOMAIN emitters'[e] : id < COUNTER'
        /\ elast'.op = "connect"
               => LET e == elast'.emitter
                      id == elast'.id
                  IN /\ id >= COUNTER
                     /\ id < COUNTER'
                     /\ \A e2 \in EmitterIds : id \notin DOMAIN emitters[e2]
                     /\ DOMAIN emitters'[e] = (DOMAIN emitters[e]) \cup {id}
                     /\ Cardinality(DOMAIN emitters'[e]) = Cardinality(DOMAIN emitters[e]) + 1
                     /\ emitters'[e][id] = elast'.ch
                     /\ \A old \in DOMAIN emitters[e] : emitters'[e][old] = emitters[e][old]
                     /\ \A e2 \in EmitterIds \ {e} : emitters'[e2] = emitters[e2]
      ]_vars

C34_Witness ==
    /\ elast.op = "connect"
    /\ elast.id = 1
    /\ DOMAIN emitters[elast.emitter] = {0, 1}

\* C37: what one emit delivers to each listener is a copy of its own: a write
\* to the field `current` of the notification one listener received leaves
\* what every other listener reads in the notifications it received as it
\* was.
C37_DeliveredCopiesIndependent ==
    [][ elast'.op = "update"
        => \A ch2 \in (DOMAIN channels) \ {elast'.ch} :
               \A k \in DOMAIN channels[ch2].queue :
                   cells'[channels'[ch2].queue[k].current]
                       = cells[channels[ch2].queue[k].current]
      ]_vars

-----------------------------------------------------------------------------
-----------------------------------------------------------------------------
\* C36, as stated: with the quit flag set when execute is called, every
\* worker is initialized, ticked exactly once and deinitialized: there is one
\* iteration and no second.
C36_PresetQuitOneTick ==
    preset => /\ iter <= 1
              /\ pc.at = "done"
                     => /\ WorkersOf(CallsOf("intialize")) = workers
                        /\ WorkersOf(CallsOf("do_work")) = workers
                        /\ WorkersOf(CallsOf("deinitialize")) = workers

\* C36, as the code has it: with the quit flag set when execute is called the
\* body of the loop is still entered after intialize, whatever the flag; the
\* flag still set when the first iteration ends, the loop is left there, every
\* worker ticked exactly once and not again; and when execute returns every
\* worker has been initialized, ticked in the first iteration and
\* deinitialized.
C36_PresetQuitStillRuns ==
    [][ /\ (preset /\ pc.at = "intialize" /\ pc.i > Len(workers))
               => (pc' = At("do_work", 1, 0) /\ iter' = 1)
        /\ (preset /\ AtCheck /\ iter = 1 /\ quit)
               => /\ pc' = At("deinitialize", 1, 0)
                  /\ iter' = 1
                  /\ WorkersOf(CallsOf("do_work")) = workers
        /\ (preset /\ LoopLeft)
               => (iter' = iter /\ CallsOf("do_work")' = CallsOf("do_work"))
        /\ (preset' /\ pc'.at = "done")
               => /\ iter' >= 1
                  /\ WorkersOf(CallsOf("intialize"))' = workers
                  /\ WorkersOf(Ticks(1))' = workers
                  /\ WorkersOf(CallsOf("deinitialize"))' = workers
      ]_vars

C36_Witness ==
    /\ preset
    /\ quit
    /\ pc.at = "done"
    /\ iter = 1
    /\ Len(workers) = 2
    /\ WorkersOf(CallsOf("do_work")) = workers

-----------------------------------------------------------------------------
\* C38: update_Y on a value that holds another variant returns
\* DatabaseFieldError and leaves the variant and the payload as they were;
\* update_X on a value that holds an X returns Ok, replaces the payload and
\* keeps the variant.
C38_UpdateTyping ==
    [][ vlast'.op = "update"
        => IF value.variant = vlast'.variant
           THEN /\ vlast'.result = Ok
                /\ value'.variant = value.variant
                /\ value'.payload = vlast'.arg
           ELSE /\ vlast'.result = DatabaseFieldError
                /\ value' = value
      ]_vars

C38_Witness ==
    /\ value = RawValue("String", "p2")
    /\ vlast = ValueCall("update", "EntityReference", "p1", DatabaseFieldError)

-----------------------------------------------------------------------------
\* The REST client (qdb/rest.rs): the two flags connected() is computed from.

\* The methods of the client that send a request.
RestMethods ==
    {"get_entity", "get_entities", "read", "write", "register_notification",
     "unregister_notification", "get_notifications"}

\* How a request goes: the post or the decoding of the answer fails, the
\* answer is not AUTHENTICATED, the answer has no payload, or the payload is
\* returned.
SendOutcomes == {"unreachable", "unauthenticated", "invalid_payload", "ok"}

\* Client::connected
RestConnected == endpoint_reachable /\ ~auth_failure

\* The REST client apart from the rest of the program.
OnlyRest == UNCHANGED <<regVars, supVars, appVars, valVars, emVars>>

\* The client ids the server hands out.
ClientIds == {"id1", "id2"}

\* Client::connect: authenticate()?, which keeps the client id the server
\* answered, then both flags are set for a connected client.
RestConnect(ok, id) ==
    /\ IF ok
       THEN /\ request_template' = id
            /\ auth_failure' = FALSE
            /\ endpoint_reachable' = TRUE
            /\ reach' = TRUE
            /\ auth_seen' = FALSE
            /\ auth_pending' = FALSE
       ELSE UNCHANGED <<auth_failure, endpoint_reachable, request_template, reach,
                        auth_seen, auth_pending>>
    /\ rlast' = RestCall("connect", "connect", IF ok THEN "ok" ELSE "unreachable")

\* A faulty send: endpoint_reachable is not taken down before the request.
RestSendKeepsReachable(method, outcome) ==
    /\ endpoint_reachable' = (endpoint_reachable \/ outcome = "ok")
    /\ auth_failure' = (auth_failure \/ outcome = "unauthenticated")
    /\ reach' = (outcome = "ok")
    /\ auth_seen' = (auth_seen \/ outcome = "unauthenticated")
    /\ auth_pending' = (auth_pending \/ outcome = "unauthenticated")
    /\ rlast' = RestCall("send", method, outcome)
    /\ UNCHANGED request_template

\* Client::send, called by `method`: endpoint_reachable is taken down, and set
\* again only when the payload is returned; an answer that is not
\* AUTHENTICATED sets auth_failure.
RestSend(method, outcome) ==
    /\ endpoint_reachable' = (outcome = "ok")
    /\ auth_failure' = (auth_failure \/ outcome = "unauthenticated")
    /\ reach' = (outcome = "ok")
    /\ auth_seen' = (auth_seen \/ outcome = "unauthenticated")
    /\ auth_pending' = (auth_pending \/ outcome = "unauthenticated")
    /\ rlast' = RestCall("send", method, outcome)
    /\ UNCHANGED request_template

\* Client::disconnect
RestDisconnect ==
    /\ auth_failure' = FALSE
    /\ endpoint_reachable' = FALSE
    /\ reach' = FALSE
    /\ auth_seen' = FALSE
    /\ rlast' = RestCall("disconnect", "disconnect", "ok")
    /\ UNCHANGED <<auth_pending, request_template>>

RestNext ==
    \/ \E ok \in BOOLEAN, id \in ClientIds : RestConnect(ok, id) /\ OnlyRest
    \/ \E method \in RestMethods, outcome \in SendOutcomes :
           RestSend(method, outcome) /\ OnlyRest
    \/ RestDisconnect /\ OnlyRest

RestSpec == Init /\ [][RestNext]_vars

\* C39, as stated: connected() is true exactly when the most recent connect
\* that succeeded, request or disconnect was a success of connect or of a
\* request and no request has failed to authenticate since the last connect
\* that succeeded or disconnect; and once a request has failed to authenticate,
\* connected() stays false, whatever later requests answer, until connect()
\* succeeds again.
C39_ConnectedUntilConnect ==
    /\ RestConnected <=> (reach /\ ~auth_seen)
    /\ auth_pending => ~RestConnected

\* C39, as the code has it: the authentication failure is forgotten by
\* disconnect() as well as by a connect() that succeeds.  connected() is true
\* exactly when the last connect that succeeded, request or disconnect was a
\* success of connect or of a request and no request has failed to
\* authenticate since the last connect that succeeded or disconnect: a failed
\* request makes it false, a failed connect leaves it as it was, disconnect
\* makes it false, and after an authentication failure it stays false while
\* neither connect has succeeded nor disconnect been called.
C39_ConnectedSinceConnectOrDisconnect ==
    /\ ~RestConnected
    /\ [][ /\ RestConnected' <=> (reach' /\ ~auth_seen')
           /\ (rlast'.op = "send" /\ rlast'.outcome # "ok") => ~RestConnected'
           /\ (rlast'.op = "send" /\ rlast'.outcome = "ok") => (RestConnected' <=> ~auth_seen)
           /\ (rlast'.op = "connect" /\ rlast'.outcome # "ok")
                  => (RestConnected' <=> RestConnected)
           /\ (rlast'.op = "connect" /\ rlast'.outcome = "ok") => RestConnected'
           /\ rlast'.op = "disconnect" => ~RestConnected'
           /\ (auth_seen /\ auth_seen') => ~RestConnected'
         ]_vars

\* A request has succeeded after one that failed to authenticate, and
\* connected() is still false.
C39_Witness ==
    /\ auth_seen
    /\ rlast.op = "send"
    /\ rlast.outcome = "ok"
    /\ endpoint_reachable
    /\ ~RestConnected

====
